---- MODULE Spec2Model ----
(***************************************************************************)
(* The Dyrt campground scraper: the reconciler (store_campgrounds), the    *)
(* resumable grid harvest (ImprovedDyrtScraper.run) and the plain harvest  *)
(* (DyrtScraper.run / run_scraper), as state machines.                     *)
(*                                                                         *)
(*   SpecStore  a sequence of store_campgrounds calls on one session       *)
(*   Spec       runs of ImprovedDyrtScraper.run, process crashes included  *)
(*   SpecDyrt   runs of run_scraper (DyrtScraper.run)                      *)
(***************************************************************************)
EXTENDS Integers, Sequences, FiniteSets, TLC

VARIABLES
    \* ---- the database and the session of CampgroundProcessor
    table,          \* committed rows of the campgrounds table
    pending,        \* the rows as the session's open transaction sees them
    now,            \* the clock read by datetime.now()
    spc,            \* position of store_campgrounds: idle, loop, returned, raised
    campgrounds,    \* store_campgrounds: its argument
    k,              \* store_campgrounds: records upserted so far (count)
    ret,            \* store_campgrounds: its return value
    \* ---- history of the store, read by the properties only
    tableBefore,    \* table when the current call was entered
    geos,           \* what the geocoder did for each record upserted by the call
    prev,           \* the row of the last upserted id as it was before that upsert
    lastCommitted,  \* id -> data of the last record upserted by a committed call
    \* ---- the harvest run (ImprovedDyrtScraper.run, DyrtScraper.run)
    pc,             \* position of run: idle, loop, fetch, fetched, storing
    resume,         \* run: its resume argument
    stats,          \* run: the stats dictionary in memory
    total_campgrounds, \* run: local total
    processed_cells,   \* run: local set of completed cell ids
    i,              \* run: index into grid_bounds (1-based)
    page,           \* search_campgrounds_paginated: page
    campground_data,   \* all_campgrounds of the fetch, then campground_data of run
    statsFile,      \* scraper_stats.json on disk
    outcome,        \* how the last run ended: none, returned, raised, crashed
    result,         \* value returned by the last run
    runs,           \* runs started so far
    \* ---- history of the run, read by the properties only
    fetchLog,       \* cell ids fetched by the current run, in order
    lastPersist,    \* the last cell whose records the current run handed to persist
    failedCell,     \* the cell being processed, once a page request of it failed
    startCompleted, \* the completed set the current run loaded at its start
    startRows,      \* at the start of the run, the rows stored for those cells
    fileBeforeCell, \* statsFile when the current cell was entered
    writtenIds,     \* ids upserted and committed by the current run
    idsInFile,      \* ids committed for the cells the stats file lists
    wrote,          \* whether the current run has written the stats file
    storedByRun,    \* records store_campgrounds reported stored to the current run
    pacing,         \* none (no source request yet in the run), requested (a request
                    \* was made and no pacing sleep since), slept
    \* ---- a request with retries (_make_request, get_address_from_coordinates)
    max_retries,    \* self.max_retries
    method,         \* _make_request: its method argument
    attempt,        \* the loop variable of the retry loop
    responses,      \* what each attempt made so far met, in order
    sleeps,         \* the attempt numbers whose backoff was slept, in order
    rpc,            \* position of the retry loop: idle, try, sleep, returned, raised
    rret,           \* what the retry loop returned
    \* ---- get_address_with_fallback
    lat,            \* its latitude argument
    lon,            \* its longitude argument
    gpc,            \* its position: idle, primary, done
    address,        \* its return value
    \* ---- the region-level fetch (search_campgrounds_paginated, search_campgrounds)
    searcher,       \* which of the two functions is called
    max_pages,      \* search_campgrounds_paginated: its max_pages argument
    per_page,       \* its per_page argument (limit of search_campgrounds)
    fpc,            \* position of the fetch: idle, loop, returned, raised
    requested,      \* the page requests made so far and what each met, in order
    dumps,          \* pages whose payload was written to a diagnostic file
    \* ---- parse_and_validate_campgrounds
    ppc,            \* its position: idle, loop, returned, raised
    pidx,           \* records of campground_data gone through so far
    validated_campgrounds, \* its list of validated records
    \* ---- _generate_grid_bounds
    GRID_SIZE,      \* self.GRID_SIZE
    US_BOUNDS,      \* the bounding rectangle
    gridpc,         \* its position: idle, loop, returned
    gi,             \* the loop variable i (rows)
    gj,             \* the loop variable j (columns)
    grid_bounds,    \* the list of cells built so far
    grid_before,    \* the list an earlier call returned, <<>> before any
    \* ---- the probing of a response envelope (search_campgrounds)
    json_response,  \* what _make_request returned
    epc,            \* position of the probing: idle, returned, raised
    extracted,      \* the list of records taken from the response
    \* ---- two harvest runs storing at the same time, each on its own session
    sessions,       \* for each run: its batch, records done, uncommitted rows,
                    \* geocoder outcomes and position of store_campgrounds
    commitLog,      \* the runs whose batch committed, in commit order
    \* ---- the resources of a scraper instance
    db_open,        \* self.db_session is open
    client_open,    \* the HTTP session of self.api_client is open
    \* ---- _load_stats and the skip test of run, on the text of the stats file
    file_text,      \* the characters of scraper_stats.json, or Missing
    lresume,        \* the resume argument of the run
    lpc,            \* "idle", "loop", "done", "raised"
    lstats,         \* the stats the run starts from
    li,             \* index of the cell the loop is at
    lvisited,       \* the cells the run went on to process, in order
    \* ---- api.py, simple_scheduler.py: the scheduler shared by the API
    running,        \* scheduler.running
    jobs,           \* schedule.jobs: for each registered job, whether it is due
    threads,        \* for each thread slot: position of scheduler.start in it,
                    \* the due jobs run_pending still has to run, and whether
                    \* the last run_scraper of the thread failed
    \* ---- update_addresses (address_update_test.py, scraper.py)
    updater,        \* which of the two functions is called
    force_update,   \* the force_update argument (False where there is none)
    batch_size,     \* the batch_size argument
    urows,          \* the committed rows: for each id, address and coordinates
    urows0,         \* the committed rows when the function was called
    campgrounds_to_update,  \* the ids the query returned, in order
    ui,             \* index of the row the loop is at
    assigned,       \* the ids whose address is set in the session, uncommitted
    ugeo,           \* for each id, what the geocoder gave for it in this call
    updated_count,  \* the counter of the function
    upc,            \* "idle", "row", "commit", "returned", "raised"
    uresult         \* the value returned

storeVars == <<table, pending, now, spc, campgrounds, k, ret,
               tableBefore, geos, prev, lastCommitted>>
runVars == <<pc, resume, stats, total_campgrounds, processed_cells, i, page,
             campground_data, statsFile, outcome, result, runs>>
runHist == <<fetchLog, lastPersist, failedCell, startCompleted, startRows,
             fileBeforeCell, writtenIds, idsInFile, wrote>>
reqVars == <<max_retries, method, attempt, responses, sleeps, rpc, rret>>
geoVars == <<lat, lon, gpc, address>>
searchVars == <<searcher, max_pages, per_page, fpc, requested, dumps>>
parseVars == <<ppc, pidx, validated_campgrounds>>
gridVars == <<GRID_SIZE, US_BOUNDS, gridpc, gi, gj, grid_bounds, grid_before>>
probeVars == <<json_response, epc, extracted>>
txVars == <<sessions, commitLog>>
loadVars == <<file_text, lresume, lpc, lstats, li, lvisited>>
schedVars == <<running, jobs, threads>>
updVars == <<updater, force_update, batch_size, urows, urows0, campgrounds_to_update,
             ui, assigned, ugeo, updated_count, upc, uresult>>
newVars == <<loadVars, schedVars, updVars>>
lateVars == <<probeVars, txVars, newVars>>
auxVars == <<reqVars, geoVars, searchVars, parseVars, gridVars, lateVars>>
runGhost == <<storedByRun, pacing>>
runRes == <<db_open, client_open>>
harvestVars == <<storeVars, runVars, runHist, runGhost, runRes, lateVars>>
\* the run's variables but page and campground_data
runRest == <<pc, resume, stats, total_campgrounds, processed_cells, i, statsFile,
             outcome, result, runs>>
vars == <<storeVars, runVars, runHist, runGhost, runRes, auxVars>>

----------------------------------------------------------------------------
(* Bounds of the model *)

\* datetime.now() is read at most this many times: caps the number of upserts
MaxClock == 3
\* longest batch handed to store_campgrounds by a direct caller
MaxBatch == 2
\* grid dimension N of the runs (GRID_SIZE, grid_size): N x N cells
GridSize == 2
\* max_pages_per_cell and per_page of the runs
MaxPages == 2
PerPage == 1
\* runs started in one behaviour
MaxRuns == 2

----------------------------------------------------------------------------
(* Values *)

\* Python's None, for an address
None == <<>>

Ids == {"c1", "c2"}
Names == {"n1", "n2"}
\* 0 stands for the coordinate 0.0 (falsy in Python), 1 for any other value
Coords == {0, 1}
\* an address carried by the record, and the one the lookup service resolves
CarriedAddress == <<"addr", "carried">>
ResolvedAddress == <<"addr", "resolved">>

\* A validated Campground, as far as the reconciler reads it
CampgroundFields == [id : Ids, name : Names, latitude : Coords, longitude : {1},
                     address : {None, CarriedAddress}]

\* The records handed to store_campgrounds by a direct caller: "c1" varies in
\* name and address, "c2" in its latitude (0.0 or not)
Campground ==
    {c \in CampgroundFields :
        \/ c.id = "c1" /\ c.latitude = 1
        \/ c.id = "c2" /\ c.name = "n1" /\ c.address = None}

\* What the primary reverse-geocoding lookup does for one call
GeoOutcomes == {"found", "none", "raise"}

\* Python truthiness of a float and of an optional string
TruthyNum(x) == x # 0
TruthyStr(s) == s # None /\ s # <<"addr", "">>

----------------------------------------------------------------------------
(* geocoding.py *)

\* GeocodingService.get_address_from_coordinates, by the outcome of the lookup:
\* the display_name, or None (no display_name, or retries exhausted)
get_address_from_coordinates(geo, latitude, longitude) ==
    IF geo = "found" THEN ResolvedAddress ELSE None

\* get_address: the primary lookup alone; [raised, value]
get_address(geo, latitude, longitude) ==
    IF geo = "raise"
    THEN [raised |-> TRUE, value |-> None]
    ELSE [raised |-> FALSE,
          value |-> get_address_from_coordinates(geo, latitude, longitude)]

\* get_address_with_fallback: primary lookup, else the coordinate placeholder
get_address_with_fallback(geo, latitude, longitude) ==
    LET primary == get_address(geo, latitude, longitude) IN
    IF ~primary.raised /\ TruthyStr(primary.value)
    THEN primary.value
    ELSE IF TruthyNum(latitude) /\ TruthyNum(longitude)
         THEN <<"Location at coordinates", latitude, longitude>>
         ELSE None

----------------------------------------------------------------------------
(* data_processor.py *)

\* a conversion that calls the geocoder whenever the coordinates are there
NeedsGeocodingWithAddress(campground) ==
    TruthyNum(campground.latitude) /\ TruthyNum(campground.longitude)

\* whether _convert_to_db_model calls the geocoder for this record
NeedsGeocoding(campground) ==
    /\ ~TruthyStr(campground.address)
    /\ TruthyNum(campground.latitude) /\ TruthyNum(campground.longitude)

\* the address _convert_to_db_model puts in the row
ConvertedAddress(campground, geo) ==
    IF TruthyStr(campground.address)
    THEN campground.address
    ELSE IF TruthyNum(campground.latitude) /\ TruthyNum(campground.longitude)
         THEN LET r == get_address(geo, campground.latitude, campground.longitude)
              IN IF r.raised THEN None ELSE r.value
         ELSE None

\* _convert_to_db_model: the column values of the row (timestamps apart)
convert_to_db_model(campground, geo) ==
    [id |-> campground.id, name |-> campground.name,
     latitude |-> campground.latitude, longitude |-> campground.longitude,
     address |-> ConvertedAddress(campground, geo)]

\* a set_ clause that leaves updated_at to the row (the refresh forgotten)
OnConflictKeepUpdatedAt(row, db_campground, t) ==
    [id |-> row.id, name |-> db_campground.name,
     latitude |-> db_campground.latitude, longitude |-> db_campground.longitude,
     address |-> db_campground.address,
     created_at |-> row.created_at, updated_at |-> row.updated_at]

\* a set_ clause that patches: a null address keeps the stored one
OnConflictCoalesceAddress(row, db_campground, t) ==
    [id |-> row.id, name |-> db_campground.name,
     latitude |-> db_campground.latitude, longitude |-> db_campground.longitude,
     address |-> IF db_campground.address = None THEN row.address
                 ELSE db_campground.address,
     created_at |-> row.created_at, updated_at |-> t]

\* a set_ clause without the name: the stored name stays
OnConflictKeepName(row, db_campground, t) ==
    [id |-> row.id, name |-> row.name,
     latitude |-> db_campground.latitude, longitude |-> db_campground.longitude,
     address |-> db_campground.address,
     created_at |-> row.created_at, updated_at |-> t]

\* the set_ clause of on_conflict_do_update applied to an existing row
OnConflictDoUpdate(row, db_campground, t) ==
    [id |-> row.id, name |-> db_campground.name,
     latitude |-> db_campground.latitude, longitude |-> db_campground.longitude,
     address |-> db_campground.address,
     created_at |-> row.created_at, updated_at |-> t]

\* the values clause: the row a plain insert creates (created_at by its default)
InsertValues(db_campground, t) ==
    [id |-> db_campground.id, name |-> db_campground.name,
     latitude |-> db_campground.latitude, longitude |-> db_campground.longitude,
     address |-> db_campground.address,
     created_at |-> t, updated_at |-> t]

\* an insert with on conflict do nothing: the first record of an id stays
UpsertDoNothing(rows, db_campground, t) ==
    IF \E r \in rows : r.id = db_campground.id
    THEN rows
    ELSE rows \cup {InsertValues(db_campground, t)}

\* execute(stmt): insert ... on conflict (id) do update, on the rows `rows`
Upsert(rows, db_campground, t) ==
    IF \E r \in rows : r.id = db_campground.id
    THEN {IF r.id = db_campground.id THEN OnConflictDoUpdate(r, db_campground, t) ELSE r
          : r \in rows}
    ELSE rows \cup {InsertValues(db_campground, t)}

\* the rows of `rows` with the given id
RowsOf(rows, id) == {r \in rows : r.id = id}

NoRow == [id |-> "none"]
RowOrNone(rows, id) == IF RowsOf(rows, id) = {} THEN NoRow ELSE CHOOSE r \in RowsOf(rows, id) : TRUE


\* the data of a row, timestamps apart
DataOf(row) == [id |-> row.id, name |-> row.name, latitude |-> row.latitude,
                longitude |-> row.longitude, address |-> row.address]

\* what the geocoder may do for this record: nothing when it is not called
GeoChoices(campground) ==
    IF NeedsGeocoding(campground) THEN GeoOutcomes ELSE {"notcalled"}

\* lastCommitted after the committed batch `batch`, upserted with outcomes `gs`
RECURSIVE Remember(_, _, _, _)
Remember(f, batch, gs, n) ==
    IF n > Len(batch) THEN f
    ELSE Remember([f EXCEPT ![batch[n].id] = [rec |-> batch[n], geo |-> gs[n]]],
                  batch, gs, n + 1)

NoRecord == [rec |-> NoRow, geo |-> "notcalled"]

\* store_campgrounds is entered with `batch`: an empty batch returns 0 at once
StoreEnter(batch) ==
    /\ campgrounds' = batch
    /\ k' = 0
    /\ geos' = <<>>
    /\ prev' = NoRow
    /\ tableBefore' = table
    /\ IF batch = <<>>
       THEN spc' = "returned" /\ ret' = 0
       ELSE spc' = "loop" /\ ret' = ret
    /\ UNCHANGED <<table, pending, now, lastCommitted>>

\* a record loop that commits after every execute
StoreExecuteAutocommit ==
    /\ spc = "loop"
    /\ k < Len(campgrounds)
    /\ now < MaxClock
    /\ \E geo \in GeoChoices(campgrounds[k + 1]) :
          LET campground == campgrounds[k + 1]
              db_campground == convert_to_db_model(campground, geo)
          IN /\ pending' = Upsert(pending, db_campground, now)
             /\ table' = Upsert(pending, db_campground, now)
             /\ prev' = RowOrNone(pending, campground.id)
             /\ geos' = Append(geos, geo)
    /\ now' = now + 1
    /\ k' = k + 1
    /\ UNCHANGED <<spc, campgrounds, ret, tableBefore, lastCommitted>>

\* a record loop whose conversion lets an exception of the geocoder through:
\* the call rolls back and raises
StoreExecuteGeoRaises ==
    /\ spc = "loop"
    /\ k < Len(campgrounds)
    /\ now < MaxClock
    /\ \E geo \in GeoChoices(campgrounds[k + 1]) :
          LET campground == campgrounds[k + 1]
              db_campground == convert_to_db_model(campground, geo)
          IN /\ geos' = Append(geos, geo)
             /\ IF geo = "raise"
                THEN /\ pending' = table
                     /\ prev' = NoRow
                     /\ spc' = "raised"
                     /\ UNCHANGED <<now, k>>
                ELSE /\ pending' = Upsert(pending, db_campground, now)
                     /\ prev' = RowOrNone(pending, campground.id)
                     /\ now' = now + 1
                     /\ k' = k + 1
                     /\ UNCHANGED spc
    /\ UNCHANGED <<table, campgrounds, ret, tableBefore, lastCommitted>>

\* one turn of the record loop: convert (geocoding included), build and execute
\* the statement, count += 1
StoreExecute ==
    /\ spc = "loop"
    /\ k < Len(campgrounds)
    /\ now < MaxClock
    /\ \E geo \in GeoChoices(campgrounds[k + 1]) :
          LET campground == campgrounds[k + 1]
              db_campground == convert_to_db_model(campground, geo)
          IN /\ pending' = Upsert(pending, db_campground, now)
             /\ prev' = RowOrNone(pending, campground.id)
             /\ geos' = Append(geos, geo)
    /\ now' = now + 1
    /\ k' = k + 1
    /\ UNCHANGED <<table, spc, campgrounds, ret, tableBefore, lastCommitted>>

\* a commit that returns the number of distinct rows written
StoreCommitCountsRows ==
    /\ spc = "loop"
    /\ k = Len(campgrounds)
    /\ table' = pending
    /\ ret' = Cardinality({campgrounds[n].id : n \in 1..Len(campgrounds)})
    /\ spc' = "returned"
    /\ lastCommitted' = Remember(lastCommitted, campgrounds, geos, 1)
    /\ UNCHANGED <<pending, now, campgrounds, k, tableBefore, geos, prev>>

\* self.db.commit() after the loop, then return count
StoreCommit ==
    /\ spc = "loop"
    /\ k = Len(campgrounds)
    /\ table' = pending
    /\ ret' = k
    /\ spc' = "returned"
    /\ lastCommitted' = Remember(lastCommitted, campgrounds, geos, 1)
    /\ UNCHANGED <<pending, now, campgrounds, k, tableBefore, geos, prev>>

\* the conversion, the execute or the commit raises: rollback, then re-raise
StoreFails ==
    /\ spc = "loop"
    /\ pending' = table
    /\ spc' = "raised"
    /\ prev' = NoRow
    /\ UNCHANGED <<table, now, campgrounds, k, ret, tableBefore, geos, lastCommitted>>

\* the caller has the result (or the exception) of the call
StoreLeave ==
    /\ spc \in {"returned", "raised"}
    /\ spc' = "idle"
    /\ campgrounds' = <<>>
    /\ k' = 0
    /\ geos' = <<>>
    /\ prev' = NoRow
    /\ tableBefore' = table
    /\ ret' = 0
    /\ UNCHANGED <<table, pending, now, lastCommitted>>

\* batches of at most n records
RECURSIVE Batches(_)
Batches(n) ==
    IF n = 0 THEN {<<>>}
    ELSE LET shorter == Batches(n - 1)
         IN shorter \cup {Append(b, c) : b \in {x \in shorter : Len(x) = n - 1},
                                          c \in Campground}

InitStore ==
    /\ table = {}
    /\ pending = {}
    /\ now = 0
    /\ spc = "idle"
    /\ campgrounds = <<>>
    /\ k = 0
    /\ ret = 0
    /\ tableBefore = {}
    /\ geos = <<>>
    /\ prev = NoRow
    /\ lastCommitted = [id \in Ids |-> NoRecord]

----------------------------------------------------------------------------
(* improved_scrapers.py, scraper.py: the grid and the stats file *)

\* str(n) of a non-negative integer: its decimal digits, most significant first
RECURSIVE Decimal(_)
Decimal(n) ==
    LET digit == <<"0", "1", "2", "3", "4", "5", "6", "7", "8", "9">>[(n % 10) + 1]
    IN IF n < 10 THEN <<digit>> ELSE Append(Decimal(n \div 10), digit)

\* a cell id without the separator between the two numbers
CellIdNoSeparator(row, col) == Decimal(row) \o Decimal(col)

\* cell_id = f"{i}-{j}", as the sequence of its characters
CellId(row, col) == Decimal(row) \o <<"-">> \o Decimal(col)

\* _generate_grid_bounds: the cells in row-major order (outer loop i, inner j)
generate_grid_bounds ==
    [n \in 1..(GridSize * GridSize) |->
        [cell_id |-> CellId((n - 1) \div GridSize, (n - 1) % GridSize),
         row |-> (n - 1) \div GridSize,
         col |-> (n - 1) % GridSize]]

NumCells == Len(generate_grid_bounds)
CellIds == {generate_grid_bounds[n].cell_id : n \in 1..NumCells}

\* the stats file as __init__ creates it, and as _load_stats defaults it
EmptyStats == [total_campgrounds |-> 0, processed_cells |-> {}]
\* a stats file that does not parse as JSON (truncated by an interrupted write)
Corrupt == [total_campgrounds |-> -1, processed_cells |-> {}]

NoCell == <<>>

\* the scraper object just constructed, no run started
InitRunIdle ==
    /\ pc = "idle"
    /\ resume = FALSE
    /\ stats = EmptyStats
    /\ total_campgrounds = 0
    /\ processed_cells = {}
    /\ i = 0
    /\ page = 0
    /\ campground_data = <<>>
    /\ statsFile = EmptyStats
    /\ outcome = "none"
    /\ result = 0
    /\ runs = 0
    /\ fetchLog = <<>>
    /\ lastPersist = NoCell
    /\ failedCell = NoCell
    /\ startCompleted = {}
    /\ startRows = {}
    /\ fileBeforeCell = EmptyStats
    /\ writtenIds = {}
    /\ idsInFile = {}
    /\ wrote = FALSE
    /\ storedByRun = 0
    /\ pacing = "none"
    /\ db_open = FALSE
    /\ client_open = FALSE

\* no request under way
InitReqIdle ==
    /\ max_retries = 3
    /\ method = "GET"
    /\ attempt = 0
    /\ responses = <<>>
    /\ sleeps = <<>>
    /\ rpc = "idle"
    /\ rret = None

\* get_address_with_fallback not called
InitGeoIdle ==
    /\ lat = 0
    /\ lon = 0
    /\ gpc = "idle"
    /\ address = None

\* no region-level fetch under way
InitSearchIdle ==
    /\ searcher = "search_campgrounds_paginated"
    /\ max_pages = 1
    /\ per_page = 1
    /\ fpc = "idle"
    /\ requested = <<>>
    /\ dumps = {}

\* parse_and_validate_campgrounds not called
InitParseIdle ==
    /\ ppc = "idle"
    /\ pidx = 0
    /\ validated_campgrounds = <<>>

\* _generate_grid_bounds not called
InitGridIdle ==
    /\ GRID_SIZE = 1
    /\ US_BOUNDS = [west |-> 0, east |-> 1, south |-> 0, north |-> 1]
    /\ gridpc = "idle"
    /\ gi = 0
    /\ gj = 0
    /\ grid_bounds = <<>>
    /\ grid_before = <<>>

\* the keys of a response that is a JSON object: absent, or present with a value
NoKey == [present |-> FALSE, value |-> <<>>]
Key(v) == [present |-> TRUE, value |-> v]

\* a response that is no object and no array
Scalar == [kind |-> "scalar", results |-> [kind |-> "absent", campgrounds |-> NoKey],
           campgrounds |-> NoKey, data |-> NoKey, items |-> <<>>]

\* no response is being probed
InitProbeIdle ==
    /\ json_response = Scalar
    /\ epc = "idle"
    /\ extracted = <<>>

\* the runs that may store at the same time
Tx == {1, 2}

\* a session on which store_campgrounds is not running
NoSession == [campgrounds |-> <<>>, k |-> 0, writes |-> {}, geos |-> <<>>,
              spc |-> "idle"]

\* no run is storing
InitTxIdle ==
    /\ sessions = [t \in Tx |-> NoSession]
    /\ commitLog = <<>>

\* scraper_stats.json does not exist
Missing == <<"ENOENT">>

\* no stats file is being loaded
InitLoadIdle ==
    /\ file_text = Missing
    /\ lresume = FALSE
    /\ lpc = "idle"
    /\ lstats = EmptyStats
    /\ li = 0
    /\ lvisited = <<>>

\* the slots for the threads the start requests create: the one of the loop
\* and the one of a loop started beside it; a slot is free again when its
\* thread has ended
Thr == {1, 2}

\* a slot without a live thread
NoThread == [pc |-> "none", todo |-> {}, failed |-> FALSE]

\* the scheduler as api.py constructs it: not running, nothing registered
InitSchedIdle ==
    /\ running = FALSE
    /\ jobs = <<>>
    /\ threads = [t \in Thr |-> NoThread]

\* the bound on the rows of the campgrounds table update_addresses meets
MaxUpdRows == 2
UpdIds == 1..MaxUpdRows

\* update_addresses is not running
InitUpdIdle ==
    /\ updater = "scraper"
    /\ force_update = FALSE
    /\ batch_size = 1
    /\ urows = [id \in UpdIds |-> [address |-> "null", coords |-> "ok"]]
    /\ urows0 = urows
    /\ campgrounds_to_update = <<>>
    /\ ui = 0
    /\ assigned = {}
    /\ ugeo = [id \in UpdIds |-> "notcalled"]
    /\ updated_count = 0
    /\ upc = "idle"
    /\ uresult = 0

InitNewIdle == InitLoadIdle /\ InitSchedIdle /\ InitUpdIdle

InitLateIdle == InitProbeIdle /\ InitTxIdle /\ InitNewIdle

InitAuxIdle ==
    /\ InitReqIdle /\ InitGeoIdle /\ InitSearchIdle /\ InitParseIdle /\ InitGridIdle
    /\ InitLateIdle

----------------------------------------------------------------------------
(* SpecStore: store_campgrounds called again and again on one session *)

CallStore ==
    /\ spc = "idle"
    /\ \E batch \in Batches(MaxBatch) :
          /\ now + Len(batch) <= MaxClock
          /\ StoreEnter(batch)
    /\ UNCHANGED <<runVars, runHist>>
    /\ UNCHANGED auxVars
    /\ UNCHANGED runRes
    /\ UNCHANGED runGhost

StoreStep ==
    /\ (StoreExecute \/ StoreCommit \/ StoreFails \/ StoreLeave)
    /\ UNCHANGED <<runVars, runHist>>
    /\ UNCHANGED auxVars
    /\ UNCHANGED runRes
    /\ UNCHANGED runGhost

InitStoreOnly == InitStore /\ InitRunIdle /\ InitAuxIdle
NextStore == CallStore \/ StoreStep
SpecStore == InitStoreOnly /\ [][NextStore]_vars


----------------------------------------------------------------------------
(* Properties of the reconciler, under SpecStore *)

\* the address a record ends with: its own, else what the lookup resolved
Enriched(rec, geo) ==
    IF TruthyStr(rec.address) THEN rec.address
    ELSE IF geo = "found" THEN ResolvedAddress ELSE None

\* the record upserted last by the call in progress, and its row in the session
LastRecord == campgrounds[k]
LastRow == RowOrNone(pending, LastRecord.id)
Upserting == spc \in {"loop", "returned"} /\ k >= 1

\* C5: after committed calls the table holds exactly one row per id ever
\* persisted, and no other row; the row's name, coordinates and address are
\* those of the record upserted last for that id (its own address, else what
\* its enrichment gave), also when the id occurs twice in one batch.
C5_OneRowLastWins ==
    \A id \in Ids :
        IF lastCommitted[id] = NoRecord
        THEN RowsOf(table, id) = {}
        ELSE /\ Cardinality(RowsOf(table, id)) = 1
             /\ \A r \in RowsOf(table, id) :
                   /\ r.name = lastCommitted[id].rec.name
                   /\ r.latitude = lastCommitted[id].rec.latitude
                   /\ r.longitude = lastCommitted[id].rec.longitude
                   /\ r.address = Enriched(lastCommitted[id].rec, lastCommitted[id].geo)

\* C5 witness: a committed batch that holds one id twice with different names,
\* over a row of that id committed by an earlier call
C5_Witness ==
    /\ spc = "returned"
    /\ Len(campgrounds) = 2
    /\ campgrounds[1].id = campgrounds[2].id
    /\ campgrounds[1].name # campgrounds[2].name
    /\ RowsOf(tableBefore, campgrounds[1].id) # {}
    /\ table # tableBefore

\* C6: no step changes the created_at of a committed row; the commit of a batch
\* leaves every id of the batch with an updated_at later than the one it had,
\* and leaves the rows of the other ids as they were.
C6_Timestamps ==
    [][\A r \in table :
          \E r2 \in table' :
             /\ r2.id = r.id
             /\ r2.created_at = r.created_at
             /\ IF spc = "loop" /\ spc' = "returned"
                   /\ \E n \in 1..Len(campgrounds) : campgrounds[n].id = r.id
                THEN r2.updated_at > r.updated_at
                ELSE r2 = r]_vars

\* C6 witness: a committed upsert over a committed row, with the same values
C6_Witness ==
    /\ spc = "returned"
    /\ k >= 1
    /\ prev \in tableBefore
    /\ DataOf(prev) = DataOf(RowOrNone(table, prev.id))

\* C7: while a call is in its record loop the committed table is the one the
\* call found; a call that raised leaves the table as it found it, with nothing
\* pending in the session; a call that returned upserted its whole batch and
\* returns its length.
C7_AllOrNothing ==
    /\ spc = "loop" => table = tableBefore
    /\ spc = "raised" => table = tableBefore /\ pending = table
    /\ spc = "returned" => k = Len(campgrounds) /\ ret = k /\ table = pending

\* C7 witness: a call raised after it had upserted a record over committed rows
C7_Witness ==
    /\ spc = "raised"
    /\ k >= 1
    /\ tableBefore # {}
    /\ Upsert(tableBefore, convert_to_db_model(campgrounds[1], geos[1]), now) # tableBefore

\* C9: the upsert of a record without address over an existing row leaves the
\* row with the address this call's enrichment gave (resolved, or null),
\* whatever the row held.
C9_AddressReplaced ==
    (Upserting /\ prev # NoRow /\ ~TruthyStr(LastRecord.address))
        => LastRow.address = (IF geos[k] = "found" THEN ResolvedAddress ELSE None)

\* C9 witness: a row that held an address is upserted by a record without one
\* whose enrichment gave nothing
C9_Witness ==
    /\ Upserting
    /\ prev # NoRow
    /\ prev.address = CarriedAddress
    /\ ~TruthyStr(LastRecord.address)
    /\ geos[k] \in {"none", "raise"}

\* C10: for a record without address whose coordinates are both present, the
\* stored address is what the Geocoder's resolve (get_address_with_fallback)
\* returns: the placeholder when the primary lookup fails.
C10_StoresResolve ==
    (Upserting /\ ~TruthyStr(LastRecord.address) /\ geos[k] # "notcalled")
        => LastRow.address =
              get_address_with_fallback(geos[k], LastRecord.latitude, LastRecord.longitude)


----------------------------------------------------------------------------
(* api_client.py, improved_scrapers.py: the remote source and the mapping *)

\* a key the payload does not carry
Absent == <<"absent", 0>>

\* a latitude as the source sends it: a number, a numeric string ("40.5"), or
\* text float() cannot parse; the second component is the number it stands for
RawLatitudes == {<<"float", 0>>, <<"float", 1>>, <<"numstr", 1>>, <<"text", "n/a">>}

\* a raw record: a JSON object with its id, name, latitude and longitude keys
\* (Absent for a key it lacks), or a JSON value that is no object
RawObject(id, name, latitude, longitude) ==
    [json |-> "object", id |-> id, name |-> name,
     latitude |-> latitude, longitude |-> longitude]

\* the raw records the source returns in the runs: "c1", at latitude 0.0 (for
\* which persist makes no lookup), and "c2", whose latitude does not parse
RawRecords ==
    {RawObject(<<"str", "c1">>, <<"str", "n1">>, <<"float", 0>>, <<"float", 1>>),
     RawObject(<<"str", "c2">>, <<"str", "n1">>, <<"text", "n/a">>, <<"float", 1>>)}

\* data.get(key, default)
Get(value, default) == IF value = Absent THEN default ELSE value

\* float(x) does not raise: x is a number or a numeric string
FloatParses(x) == x[1] \in {"float", "numstr"}

\* _map_api_response_to_model raises: data has no get (AttributeError), or
\* float() of a coordinate raises
MapRaises(data) ==
    \/ data.json # "object"
    \/ ~FloatParses(Get(data.latitude, <<"float", 0>>))
    \/ ~FloatParses(Get(data.longitude, <<"float", 0>>))

\* _map_api_response_to_model: mapped_data, each key with its default
map_api_response_to_model(data) ==
    [id |-> Get(data.id, <<"str", "">>),
     name |-> Get(data.name, <<"str", "">>),
     latitude |-> Get(data.latitude, <<"float", 0>>)[2],
     longitude |-> Get(data.longitude, <<"float", 0>>)[2]]

\* Campground(**mapped_data) validates: id and name are strings (an empty one
\* is a string); latitude and longitude are floats already
Validates(mapped_data) ==
    /\ mapped_data.id[1] = "str"
    /\ mapped_data.name[1] = "str"

\* the Campground constructed; address is not mapped, so the record has none
CampgroundOf(mapped_data) ==
    [id |-> mapped_data.id[2], name |-> mapped_data.name[2],
     latitude |-> mapped_data.latitude, longitude |-> mapped_data.longitude,
     address |-> None]

\* the record is appended to validated_campgrounds
Kept(data) ==
    /\ ~MapRaises(data)
    /\ Validates(map_api_response_to_model(data))

\* parse_and_validate_campgrounds of a list of JSON objects: the records that
\* map and validate, in order
RECURSIVE parse_and_validate_campgrounds(_)
parse_and_validate_campgrounds(data) ==
    IF data = <<>> THEN <<>>
    ELSE LET rest == parse_and_validate_campgrounds(Tail(data))
         IN IF Kept(Head(data))
            THEN <<CampgroundOf(map_api_response_to_model(Head(data)))>> \o rest
            ELSE rest

\* sequences over S of length at most n
RECURSIVE SeqsUpTo(_, _)
SeqsUpTo(S, n) ==
    IF n = 0 THEN {<<>>}
    ELSE LET shorter == SeqsUpTo(S, n - 1)
         IN shorter \cup {Append(b, c) : b \in {x \in shorter : Len(x) = n - 1}, c \in S}

\* what _make_request gives for one page: the request still fails after its
\* retries ("error"), or a response with its records and meta.total_pages
Responses ==
    {[status |-> "error", campgrounds |-> <<>>, total_pages |-> 1]}
    \cup [status : {"ok"}, campgrounds : SeqsUpTo(RawRecords, PerPage),
          total_pages : 1..MaxPages]

----------------------------------------------------------------------------
(* improved_scrapers.py: ImprovedDyrtScraper.run *)

\* _load_stats: the file, or the empty progress when it does not parse
load_stats(file) == IF file = Corrupt THEN EmptyStats ELSE file

\* the completed cells a stats file lists
FileCells(file) == load_stats(file).processed_cells

CurrentCell == generate_grid_bounds[i].cell_id

\* the ids of a batch
BatchIds(batch) == {batch[n].id : n \in 1..Len(batch)}

\* the locals of run once it is over
LocalsGone ==
    /\ stats' = EmptyStats
    /\ total_campgrounds' = 0
    /\ processed_cells' = {}
    /\ page' = 0
    /\ campground_data' = <<>>

\* the locals of store_campgrounds once the caller has its result
StoreLocalsGone ==
    /\ spc' = "idle"
    /\ campgrounds' = <<>>
    /\ k' = 0
    /\ geos' = <<>>
    /\ prev' = NoRow
    /\ tableBefore' = table

\* a run that loads the stats file whatever resume says
StartRunAlwaysLoads ==
    /\ pc = "idle"
    /\ spc = "idle"
    /\ runs < MaxRuns
    /\ runs' = runs + 1
    /\ \E r \in BOOLEAN :
          /\ resume' = r
          /\ stats' = load_stats(statsFile)
    /\ total_campgrounds' = stats'.total_campgrounds
    /\ processed_cells' = stats'.processed_cells
    /\ i' = 1
    /\ pc' = "loop"
    /\ outcome' = "none"
    /\ fetchLog' = <<>>
    /\ lastPersist' = NoCell
    /\ failedCell' = NoCell
    /\ startCompleted' = processed_cells'
    /\ startRows' = IF resume' /\ statsFile # Corrupt
                    THEN {r \in table : r.id \in idsInFile} ELSE {}
    /\ fileBeforeCell' = statsFile
    /\ writtenIds' = {}
    /\ wrote' = FALSE
    /\ UNCHANGED <<storeVars, page, campground_data, statsFile, result, idsInFile>>
    /\ UNCHANGED auxVars
    /\ db_open' = TRUE
    /\ client_open' = TRUE
    /\ storedByRun' = 0
    /\ pacing' = "none"

\* run is called: load or reset the progress, generate the grid
StartRun ==
    /\ pc = "idle"
    /\ spc = "idle"
    /\ runs < MaxRuns
    /\ runs' = runs + 1
    /\ \E r \in BOOLEAN :
          /\ resume' = r
          /\ stats' = IF r THEN load_stats(statsFile) ELSE EmptyStats
    /\ total_campgrounds' = stats'.total_campgrounds
    /\ processed_cells' = stats'.processed_cells
    /\ i' = 1
    /\ pc' = "loop"
    /\ outcome' = "none"
    /\ fetchLog' = <<>>
    /\ lastPersist' = NoCell
    /\ failedCell' = NoCell
    /\ startCompleted' = processed_cells'
    /\ startRows' = IF resume' /\ statsFile # Corrupt
                    THEN {r \in table : r.id \in idsInFile} ELSE {}
    /\ fileBeforeCell' = statsFile
    /\ writtenIds' = {}
    /\ wrote' = FALSE
    /\ UNCHANGED <<storeVars, page, campground_data, statsFile, result, idsInFile>>
    /\ UNCHANGED auxVars
    /\ db_open' = TRUE
    /\ client_open' = TRUE
    /\ storedByRun' = 0
    /\ pacing' = "none"

\* the cell is in processed_cells and the run resumes: continue
SkipCell ==
    /\ pc = "loop"
    /\ i <= NumCells
    /\ resume /\ CurrentCell \in processed_cells
    /\ i' = i + 1
    /\ UNCHANGED <<storeVars, pc, resume, stats, total_campgrounds, processed_cells,
                   page, campground_data, statsFile, outcome, result, runs, runHist>>
    /\ UNCHANGED auxVars
    /\ UNCHANGED runRes
    /\ UNCHANGED runGhost

\* a loop that forgets the skip: it fetches a cell whether completed or not
BeginFetchAnyCell ==
    /\ pc = "loop"
    /\ i <= NumCells
    /\ pc' = "fetch"
    /\ page' = 1
    /\ campground_data' = <<>>
    /\ fetchLog' = Append(fetchLog, CurrentCell)
    /\ failedCell' = NoCell
    /\ fileBeforeCell' = statsFile
    /\ UNCHANGED <<storeVars, resume, stats, total_campgrounds, processed_cells, i,
                   statsFile, outcome, result, runs, lastPersist, startCompleted,
                   startRows, writtenIds, idsInFile, wrote>>
    /\ UNCHANGED auxVars
    /\ UNCHANGED runRes
    /\ UNCHANGED runGhost

\* search_campgrounds_paginated is entered for the cell: page = 1
BeginFetch ==
    /\ pc = "loop"
    /\ i <= NumCells
    /\ ~(resume /\ CurrentCell \in processed_cells)
    /\ pc' = "fetch"
    /\ page' = 1
    /\ campground_data' = <<>>
    /\ fetchLog' = Append(fetchLog, CurrentCell)
    /\ failedCell' = NoCell
    /\ fileBeforeCell' = statsFile
    /\ UNCHANGED <<storeVars, resume, stats, total_campgrounds, processed_cells, i,
                   statsFile, outcome, result, runs, lastPersist, startCompleted,
                   startRows, writtenIds, idsInFile, wrote>>
    /\ UNCHANGED auxVars
    /\ UNCHANGED runRes
    /\ UNCHANGED runGhost

\* one turn of the page loop: the request, the records added, last page or not.
\* A request that raises is caught by the loop's except, which breaks.
FetchPage ==
    /\ pc = "fetch"
    /\ \E response \in Responses :
          /\ now + Len(campground_data) + Len(response.campgrounds) <= MaxClock
          /\ IF response.status = "error"
             THEN /\ pc' = "fetched"
                  /\ failedCell' = CurrentCell
                  /\ UNCHANGED <<page, campground_data>>
             ELSE /\ campground_data' = campground_data \o response.campgrounds
                  /\ failedCell' = failedCell
                  /\ IF \/ Len(response.campgrounds) < PerPage
                        \/ page >= response.total_pages
                     THEN pc' = "fetched" /\ page' = page
                     ELSE /\ page' = page + 1
                          /\ pc' = IF page + 1 <= MaxPages THEN "fetch" ELSE "fetched"
    /\ UNCHANGED <<storeVars, resume, stats, total_campgrounds, processed_cells, i,
                   statsFile, outcome, result, runs, fetchLog, lastPersist,
                   startCompleted, startRows, fileBeforeCell, writtenIds, idsInFile,
                   wrote>>
    /\ UNCHANGED auxVars
    /\ UNCHANGED runRes
    /\ pacing' = "requested"
    /\ UNCHANGED storedByRun

\* the ids stored for the cells of the file, before this run adds to the file
IdsKept == IF resume \/ wrote THEN idsInFile ELSE {}

\* an empty cell that is marked in memory only, the stats file left alone
MarkEmptyUnsaved ==
    /\ pc = "fetched"
    /\ campground_data = <<>>
    /\ processed_cells' = processed_cells \cup {CurrentCell}
    /\ stats' = [stats EXCEPT !.processed_cells = processed_cells']
    /\ i' = i + 1
    /\ pc' = "loop"
    /\ UNCHANGED <<storeVars, resume, total_campgrounds, page, campground_data,
                   outcome, result, runs, fetchLog, lastPersist, failedCell,
                   startCompleted, startRows, fileBeforeCell, writtenIds,
                   statsFile, wrote, idsInFile>>
    /\ UNCHANGED auxVars
    /\ UNCHANGED runRes
    /\ UNCHANGED runGhost

\* if not campground_data: mark the cell, save the stats, continue
MarkEmpty ==
    /\ pc = "fetched"
    /\ campground_data = <<>>
    /\ processed_cells' = processed_cells \cup {CurrentCell}
    /\ stats' = [stats EXCEPT !.processed_cells = processed_cells']
    /\ statsFile' = stats'
    /\ wrote' = TRUE
    /\ idsInFile' = IdsKept
    /\ i' = i + 1
    /\ pc' = "loop"
    /\ UNCHANGED <<storeVars, resume, total_campgrounds, page, campground_data,
                   outcome, result, runs, fetchLog, lastPersist, failedCell,
                   startCompleted, startRows, fileBeforeCell, writtenIds>>
    /\ UNCHANGED auxVars
    /\ UNCHANGED runRes
    /\ UNCHANGED runGhost

\* a run that marks the cell and saves the stats before it persists
PersistMarksFirst ==
    /\ pc = "fetched"
    /\ campground_data # <<>>
    /\ spc = "idle"
    /\ StoreEnter(parse_and_validate_campgrounds(campground_data))
    /\ pc' = "storing"
    /\ lastPersist' = CurrentCell
    /\ processed_cells' = processed_cells \cup {CurrentCell}
    /\ stats' = [stats EXCEPT !.processed_cells = processed_cells']
    /\ statsFile' = stats'
    /\ wrote' = TRUE
    /\ UNCHANGED <<resume, total_campgrounds, i, page, campground_data, outcome,
                   result, runs, fetchLog, failedCell, startCompleted, startRows,
                   fileBeforeCell, writtenIds, idsInFile>>
    /\ UNCHANGED auxVars
    /\ UNCHANGED runRes
    /\ UNCHANGED runGhost

\* parse_and_validate_campgrounds, then store_campgrounds is entered
Persist ==
    /\ pc = "fetched"
    /\ campground_data # <<>>
    /\ spc = "idle"
    /\ StoreEnter(parse_and_validate_campgrounds(campground_data))
    /\ pc' = "storing"
    /\ lastPersist' = CurrentCell
    /\ UNCHANGED <<resume, stats, total_campgrounds, processed_cells, i, page,
                   campground_data, statsFile, outcome, result, runs, fetchLog,
                   failedCell, startCompleted, startRows, fileBeforeCell, writtenIds,
                   idsInFile, wrote>>
    /\ UNCHANGED auxVars
    /\ UNCHANGED runRes
    /\ UNCHANGED runGhost

\* store_campgrounds at work inside the run
RunStoreStep ==
    /\ pc = "storing"
    /\ \/ StoreExecute /\ UNCHANGED writtenIds
       \/ StoreCommit /\ writtenIds' = writtenIds \cup BatchIds(campgrounds)
       \/ StoreFails /\ UNCHANGED writtenIds
    /\ UNCHANGED <<runVars, fetchLog, lastPersist, failedCell, startCompleted,
                   startRows, fileBeforeCell, idsInFile, wrote>>
    /\ UNCHANGED auxVars
    /\ UNCHANGED runRes
    /\ UNCHANGED runGhost

\* a checkpoint that saves the list of cells but not the new running total
CheckpointStaleTotal ==
    /\ pc = "storing"
    /\ spc = "returned"
    /\ total_campgrounds' = total_campgrounds + ret
    /\ processed_cells' = processed_cells \cup {CurrentCell}
    /\ stats' = [stats EXCEPT !.processed_cells = processed_cells']
    /\ statsFile' = stats'
    /\ wrote' = TRUE
    /\ idsInFile' = IdsKept \cup BatchIds(campgrounds)
    /\ i' = i + 1
    /\ pc' = "loop"
    /\ StoreLocalsGone
    /\ ret' = 0
    /\ UNCHANGED <<table, pending, now, lastCommitted, resume, page, campground_data,
                   outcome, result, runs, fetchLog, lastPersist, failedCell,
                   startCompleted, startRows, fileBeforeCell, writtenIds>>
    /\ UNCHANGED auxVars
    /\ UNCHANGED runRes
    /\ storedByRun' = storedByRun + ret
    /\ pacing' = "slept"

\* a checkpoint that writes the finished cell alone
CheckpointCurrentOnly ==
    /\ pc = "storing"
    /\ spc = "returned"
    /\ total_campgrounds' = total_campgrounds + ret
    /\ processed_cells' = processed_cells \cup {CurrentCell}
    /\ stats' = [total_campgrounds |-> total_campgrounds',
                 processed_cells |-> processed_cells']
    /\ statsFile' = [stats' EXCEPT !.processed_cells = {CurrentCell}]
    /\ wrote' = TRUE
    /\ idsInFile' = IdsKept \cup BatchIds(campgrounds)
    /\ i' = i + 1
    /\ pc' = "loop"
    /\ StoreLocalsGone
    /\ ret' = 0
    /\ UNCHANGED <<table, pending, now, lastCommitted, resume, page, campground_data,
                   outcome, result, runs, fetchLog, lastPersist, failedCell,
                   startCompleted, startRows, fileBeforeCell, writtenIds>>
    /\ UNCHANGED auxVars
    /\ UNCHANGED runRes
    /\ storedByRun' = storedByRun + ret
    /\ pacing' = "slept"

\* store_campgrounds returned: add to the total, mark the cell, save the stats,
\* sleep, next cell
Checkpoint ==
    /\ pc = "storing"
    /\ spc = "returned"
    /\ total_campgrounds' = total_campgrounds + ret
    /\ processed_cells' = processed_cells \cup {CurrentCell}
    /\ stats' = [total_campgrounds |-> total_campgrounds',
                 processed_cells |-> processed_cells']
    /\ statsFile' = stats'
    /\ wrote' = TRUE
    /\ idsInFile' = IdsKept \cup BatchIds(campgrounds)
    /\ i' = i + 1
    /\ pc' = "loop"
    /\ StoreLocalsGone
    /\ ret' = 0
    /\ UNCHANGED <<table, pending, now, lastCommitted, resume, page, campground_data,
                   outcome, result, runs, fetchLog, lastPersist, failedCell,
                   startCompleted, startRows, fileBeforeCell, writtenIds>>
    /\ UNCHANGED auxVars
    /\ UNCHANGED runRes
    /\ storedByRun' = storedByRun + ret
    /\ pacing' = "slept"

\* store_campgrounds raised: except logs and re-raises, finally closes
AbortRun ==
    /\ pc = "storing"
    /\ spc = "raised"
    /\ pc' = "idle"
    /\ outcome' = "raised"
    /\ LocalsGone
    /\ StoreLocalsGone
    /\ UNCHANGED <<table, pending, now, ret, lastCommitted, resume, i, statsFile,
                   result, runs, runHist>>
    /\ UNCHANGED auxVars
    /\ db_open' = FALSE
    /\ client_open' = FALSE
    /\ UNCHANGED runGhost

\* the loop is over: return total_campgrounds, finally closes
FinishRun ==
    /\ pc = "loop"
    /\ i > NumCells
    /\ result' = total_campgrounds
    /\ outcome' = "returned"
    /\ pc' = "idle"
    /\ LocalsGone
    /\ UNCHANGED <<storeVars, resume, i, statsFile, runs, runHist>>
    /\ UNCHANGED auxVars
    /\ db_open' = FALSE
    /\ client_open' = FALSE
    /\ UNCHANGED runGhost

\* the process dies: an open transaction is never committed
Crash ==
    /\ pc # "idle"
    /\ pc' = "idle"
    /\ outcome' = "crashed"
    /\ pending' = table
    /\ LocalsGone
    /\ StoreLocalsGone
    /\ ret' = 0
    /\ UNCHANGED <<table, now, lastCommitted, resume, i, statsFile, result, runs,
                   runHist>>
    /\ UNCHANGED auxVars
    /\ db_open' = FALSE
    /\ client_open' = FALSE
    /\ UNCHANGED runGhost

\* the process dies inside _save_stats, between open(file, "w"), which truncates
\* the file, and the end of json.dump: the file is left without valid JSON
CrashInSave ==
    /\ \/ pc = "fetched" /\ campground_data = <<>>
       \/ pc = "storing" /\ spc = "returned"
    /\ statsFile' = Corrupt
    /\ idsInFile' = {}
    /\ pc' = "idle"
    /\ outcome' = "crashed"
    /\ LocalsGone
    /\ StoreLocalsGone
    /\ ret' = 0
    /\ UNCHANGED <<table, pending, now, lastCommitted, resume, i, result, runs,
                   fetchLog, lastPersist, failedCell, startCompleted, startRows,
                   fileBeforeCell, writtenIds, wrote>>
    /\ UNCHANGED auxVars
    /\ db_open' = FALSE
    /\ client_open' = FALSE
    /\ UNCHANGED runGhost

Init == InitStore /\ InitRunIdle /\ InitAuxIdle
Next ==
    \/ StartRun
    \/ SkipCell
    \/ BeginFetch
    \/ FetchPage
    \/ MarkEmpty
    \/ Persist
    \/ RunStoreStep
    \/ Checkpoint
    \/ AbortRun
    \/ FinishRun
    \/ Crash
    \/ CrashInSave
Spec == Init /\ [][Next]_vars


----------------------------------------------------------------------------
(* scraper.py: DyrtScraper.run as run_scraper calls it *)

\* run is called: total_campgrounds = 0, generate the grid
DyrtStartRun ==
    /\ pc = "idle"
    /\ spc = "idle"
    /\ runs < MaxRuns
    /\ runs' = runs + 1
    /\ total_campgrounds' = 0
    /\ i' = 1
    /\ pc' = "dloop"
    /\ outcome' = "none"
    /\ fetchLog' = <<>>
    /\ lastPersist' = NoCell
    /\ failedCell' = NoCell
    /\ writtenIds' = {}
    /\ UNCHANGED <<storeVars, resume, stats, processed_cells, page, campground_data,
                   statsFile, result, startCompleted, startRows, fileBeforeCell,
                   idsInFile, wrote>>
    /\ UNCHANGED auxVars
    /\ db_open' = TRUE
    /\ client_open' = TRUE
    /\ storedByRun' = 0
    /\ pacing' = "none"

\* a run whose fetch failure leaves the method without the finally clause
DyrtFetchFailsLeavesOpen ==
    /\ pc = "dloop"
    /\ i <= NumCells
    /\ fetchLog' = Append(fetchLog, CurrentCell)
    /\ failedCell' = CurrentCell
    /\ pc' = "idle"
    /\ outcome' = "raised"
    /\ total_campgrounds' = 0
    /\ campground_data' = <<>>
    /\ UNCHANGED <<storeVars, resume, stats, processed_cells, i, page, statsFile,
                   result, runs, lastPersist, startCompleted, startRows,
                   fileBeforeCell, writtenIds, idsInFile, wrote>>
    /\ UNCHANGED auxVars
    /\ UNCHANGED runRes
    /\ pacing' = "requested"
    /\ UNCHANGED storedByRun

\* search_campgrounds of the cell raises (the request failed after its retries):
\* nothing in the loop catches it, except logs and re-raises, finally closes;
\* run_scraper catches and logs "Scraper failed"
DyrtFetchFails ==
    /\ pc = "dloop"
    /\ i <= NumCells
    /\ fetchLog' = Append(fetchLog, CurrentCell)
    /\ failedCell' = CurrentCell
    /\ pc' = "idle"
    /\ outcome' = "raised"
    /\ total_campgrounds' = 0
    /\ campground_data' = <<>>
    /\ UNCHANGED <<storeVars, resume, stats, processed_cells, i, page, statsFile,
                   result, runs, lastPersist, startCompleted, startRows,
                   fileBeforeCell, writtenIds, idsInFile, wrote>>
    /\ UNCHANGED auxVars
    /\ db_open' = FALSE
    /\ client_open' = FALSE
    /\ pacing' = "requested"
    /\ UNCHANGED storedByRun

\* search_campgrounds returns the records of the response, which are parsed,
\* validated and handed to store_campgrounds
DyrtFetchAndPersist ==
    /\ pc = "dloop"
    /\ i <= NumCells
    /\ spc = "idle"
    /\ \E response \in Responses :
          /\ response.status = "ok"
          /\ now + Len(response.campgrounds) <= MaxClock
          /\ campground_data' = response.campgrounds
          /\ StoreEnter(parse_and_validate_campgrounds(response.campgrounds))
    /\ fetchLog' = Append(fetchLog, CurrentCell)
    /\ failedCell' = NoCell
    /\ lastPersist' = CurrentCell
    /\ pc' = "dstoring"
    /\ UNCHANGED <<resume, stats, total_campgrounds, processed_cells, i, page,
                   statsFile, outcome, result, runs, startCompleted, startRows,
                   fileBeforeCell, writtenIds, idsInFile, wrote>>
    /\ UNCHANGED auxVars
    /\ UNCHANGED runRes
    /\ pacing' = "requested"
    /\ UNCHANGED storedByRun

\* store_campgrounds at work inside the run
DyrtStoreStep ==
    /\ pc = "dstoring"
    /\ \/ StoreExecute /\ UNCHANGED writtenIds
       \/ StoreCommit /\ writtenIds' = writtenIds \cup BatchIds(campgrounds)
       \/ StoreFails /\ UNCHANGED writtenIds
    /\ UNCHANGED <<runVars, fetchLog, lastPersist, failedCell, startCompleted,
                   startRows, fileBeforeCell, idsInFile, wrote>>
    /\ UNCHANGED auxVars
    /\ UNCHANGED runRes
    /\ UNCHANGED runGhost

\* store_campgrounds returned: add to the total, sleep, next cell
DyrtNextCell ==
    /\ pc = "dstoring"
    /\ spc = "returned"
    /\ total_campgrounds' = total_campgrounds + ret
    /\ i' = i + 1
    /\ pc' = "dloop"
    /\ campground_data' = <<>>
    /\ StoreLocalsGone
    /\ ret' = 0
    /\ UNCHANGED <<table, pending, now, lastCommitted, resume, stats, processed_cells,
                   page, statsFile, outcome, result, runs, runHist>>
    /\ UNCHANGED auxVars
    /\ UNCHANGED runRes
    /\ storedByRun' = storedByRun + ret
    /\ pacing' = "slept"

\* store_campgrounds raised: except logs and re-raises, finally closes
DyrtAbortRun ==
    /\ pc = "dstoring"
    /\ spc = "raised"
    /\ pc' = "idle"
    /\ outcome' = "raised"
    /\ total_campgrounds' = 0
    /\ campground_data' = <<>>
    /\ StoreLocalsGone
    /\ UNCHANGED <<table, pending, now, ret, lastCommitted, resume, stats,
                   processed_cells, i, page, statsFile, result, runs, runHist>>
    /\ UNCHANGED auxVars
    /\ db_open' = FALSE
    /\ client_open' = FALSE
    /\ UNCHANGED runGhost

\* the loop is over: return total_campgrounds, finally closes
DyrtFinishRun ==
    /\ pc = "dloop"
    /\ i > NumCells
    /\ result' = total_campgrounds
    /\ outcome' = "returned"
    /\ pc' = "idle"
    /\ total_campgrounds' = 0
    /\ UNCHANGED <<storeVars, resume, stats, processed_cells, i, page,
                   campground_data, statsFile, runs, runHist>>
    /\ UNCHANGED auxVars
    /\ db_open' = FALSE
    /\ client_open' = FALSE
    /\ UNCHANGED runGhost

NextDyrt ==
    \/ DyrtStartRun
    \/ DyrtFetchFails
    \/ DyrtFetchAndPersist
    \/ DyrtStoreStep
    \/ DyrtNextCell
    \/ DyrtAbortRun
    \/ DyrtFinishRun
SpecDyrt == Init /\ [][NextDyrt]_vars

----------------------------------------------------------------------------
(* Properties of the harvest runs *)

\* the elements of a sequence
Range(seq) == {seq[n] : n \in 1..Len(seq)}

\* the cells a resumed run has to process, in the order of the grid
RECURSIVE RemainingFrom(_, _)
RemainingFrom(n, completed) ==
    IF n > NumCells THEN <<>>
    ELSE (IF generate_grid_bounds[n].cell_id \in completed
          THEN <<>> ELSE <<generate_grid_bounds[n].cell_id>>)
         \o RemainingFrom(n + 1, completed)

IsPrefix(a, b) == Len(a) <= Len(b) /\ SubSeq(b, 1, Len(a)) = a

\* a cell of the run is being fetched or persisted
InFlight == pc \in {"fetch", "fetched", "storing"}

\* C1: a cell id is in the stats file only once the cell's batch is committed
\* (or was empty), it is there before the next cell is fetched, and so at every
\* point where the process may die at most the cell in flight is missing from
\* the file among the cells the run has fetched.
C1_CrashLosesOneRegion ==
    /\ (InFlight /\ (resume \/ wrote)) => CurrentCell \notin FileCells(statsFile)
    /\ (pc = "fetch" /\ wrote) =>
          \A n \in 1..(Len(fetchLog) - 1) : fetchLog[n] \in FileCells(statsFile)
    /\ Cardinality({c \in Range(fetchLog) : c \notin FileCells(statsFile)}) <= 1

\* C2: a cell with a page request that failed after its retries is neither
\* added to the completed set nor written to the stats file by the run.
C2_FailedRegionUnmarked ==
    failedCell # NoCell =>
        /\ failedCell \notin processed_cells
        /\ wrote => failedCell \notin FileCells(statsFile)

\* C3: a run in which the fetch of a cell failed, and which did not stop on
\* the persist of that cell, visits every cell of the grid and returns normally.
C3_FetchFailureNeverAborts ==
    (pc = "idle" /\ failedCell # NoCell /\ lastPersist # failedCell
                 /\ outcome # "crashed")
        => outcome = "returned" /\ i > NumCells

\* what a resumed run fetches and persists: nothing of the completed cells,
\* the other cells once each in the order of the grid
ResumeFetches ==
    /\ \A c \in Range(fetchLog) : c \notin startCompleted
    /\ lastPersist \notin startCompleted
    /\ IsPrefix(fetchLog, RemainingFrom(1, startCompleted))
    /\ (pc = "idle" /\ outcome = "returned")
          => fetchLog = RemainingFrom(1, startCompleted)

\* C4 as claimed: a resumed run fetches and persists nothing of the completed
\* cells, fetches the others once each in grid order, and the rows stored for
\* the completed cells are as they were when the run started.
C4_Original ==
    (resume /\ runs > 0) =>
        /\ ResumeFetches
        /\ \A r \in startRows : r \in table

\* C4 as amended: ... and a row stored for a completed cell is written by the
\* run only when the batch of a cell it processes holds a record of that id.
C4_ResumeSkipsCompleted ==
    (resume /\ runs > 0) =>
        /\ ResumeFetches
        /\ \A r \in startRows : r \notin table => r.id \in writtenIds

\* C4 witness: a resumed run returned that found completed cells with rows
\* stored for them, and cells left to fetch
C4_Witness ==
    /\ resume /\ pc = "idle" /\ outcome = "returned"
    /\ startCompleted # {}
    /\ startRows # {}
    /\ fetchLog # <<>>

\* the cell whose persist failed
FailedPersistCell == generate_grid_bounds[i].cell_id

\* what a failed persist leaves: the table of before the batch, nothing
\* pending, the stats file of before the cell
PersistFailureLeaves ==
    /\ (pc = "storing" /\ spc = "raised") =>
          /\ table = tableBefore
          /\ pending = table
          /\ statsFile = fileBeforeCell
    /\ (pc = "idle" /\ outcome = "raised") =>
          /\ i <= NumCells
          /\ pending = table
          /\ statsFile = fileBeforeCell

\* C8 as claimed: when persist fails the run aborts with the table as before
\* the batch and the stats file as the previous checkpoint left it, the cell
\* in progress not being in processed_cells.
C8_Original ==
    /\ PersistFailureLeaves
    /\ (\/ pc = "storing" /\ spc = "raised"
        \/ pc = "idle" /\ outcome = "raised")
          => FailedPersistCell \notin FileCells(statsFile)

\* C8 as amended: ... the cell in progress not being in processed_cells when
\* the run resumes (resume=True) or has already written a checkpoint.
C8_PersistFailureAborts ==
    /\ PersistFailureLeaves
    /\ ((\/ pc = "storing" /\ spc = "raised"
         \/ pc = "idle" /\ outcome = "raised") /\ (resume \/ wrote))
          => FailedPersistCell \notin FileCells(statsFile)

\* C8 witness: the persist of a cell raised after an upsert, in a run that had
\* checkpointed an earlier cell with records
C8_Witness ==
    /\ pc = "storing" /\ spc = "raised"
    /\ k >= 1
    /\ wrote
    /\ table # {}

----------------------------------------------------------------------------
(* geocoding.py, step by step: get_address_with_fallback over get_address and *)
(* the retry loop of GeocodingService.get_address_from_coordinates           *)

\* largest max_retries a client or a geocoding service is constructed with
MaxRetries == 3

\* what one request to the lookup service meets: a response with or without
\* display_name, a requests.RequestException, or any other exception
GeoResponses == {"display_name", "no_display_name", "RequestException", "Exception"}

\* get_address_with_fallback(lat, lon) is about to be called
InitGeo ==
    /\ InitStore /\ InitLateIdle /\ InitRunIdle
    /\ InitSearchIdle /\ InitParseIdle /\ InitGridIdle
    /\ lat \in Coords
    /\ lon \in Coords
    /\ gpc = "idle"
    /\ address = None
    /\ max_retries \in 1..MaxRetries
    /\ method = "GET"
    /\ attempt = 0
    /\ responses = <<>>
    /\ sleeps = <<>>
    /\ rpc = "idle"
    /\ rret = None

\* get_address_with_fallback calls get_address, which enters the retry loop
GeoCall ==
    /\ gpc = "idle"
    /\ gpc' = "primary"
    /\ rpc' = "try"
    /\ attempt' = 0
    /\ UNCHANGED <<harvestVars, searchVars, parseVars, gridVars, max_retries, method, responses,
                   sleeps, rret, lat, lon, address>>

\* a retry loop that raises once its attempts are exhausted
GeoAttemptRaisesWhenExhausted ==
    /\ gpc = "primary"
    /\ rpc = "try"
    /\ \E met \in GeoResponses :
          /\ responses' = Append(responses, met)
          /\ sleeps' = IF attempt > 0 THEN Append(sleeps, attempt) ELSE sleeps
          /\ CASE met = "display_name" ->
                    rpc' = "returned" /\ rret' = ResolvedAddress /\ UNCHANGED attempt
               [] met = "no_display_name" ->
                    rpc' = "returned" /\ rret' = None /\ UNCHANGED attempt
               [] met = "RequestException" ->
                    IF attempt >= max_retries - 1
                    THEN rpc' = "raised" /\ rret' = None /\ UNCHANGED attempt
                    ELSE attempt' = attempt + 1 /\ UNCHANGED <<rpc, rret>>
               [] met = "Exception" ->
                    rpc' = "raised" /\ UNCHANGED <<attempt, rret>>
    /\ UNCHANGED <<harvestVars, searchVars, parseVars, gridVars, max_retries, method, geoVars>>

\* one turn of the retry loop: the backoff sleep when attempt > 0, the request,
\* and what the loop does with what the request met
GeoAttempt ==
    /\ gpc = "primary"
    /\ rpc = "try"
    /\ \E met \in GeoResponses :
          /\ responses' = Append(responses, met)
          /\ sleeps' = IF attempt > 0 THEN Append(sleeps, attempt) ELSE sleeps
          /\ CASE met = "display_name" ->
                    rpc' = "returned" /\ rret' = ResolvedAddress /\ UNCHANGED attempt
               [] met = "no_display_name" ->
                    rpc' = "returned" /\ rret' = None /\ UNCHANGED attempt
               [] met = "RequestException" ->
                    IF attempt >= max_retries - 1
                    THEN rpc' = "returned" /\ rret' = None /\ UNCHANGED attempt
                    ELSE attempt' = attempt + 1 /\ UNCHANGED <<rpc, rret>>
               [] met = "Exception" ->
                    rpc' = "raised" /\ UNCHANGED <<attempt, rret>>
    /\ UNCHANGED <<harvestVars, searchVars, parseVars, gridVars, max_retries, method, geoVars>>

\* how the primary lookup ended, as get_address_with_fallback sees it
PrimaryOutcome ==
    IF rpc = "raised" THEN "raise"
    ELSE IF rret = ResolvedAddress THEN "found" ELSE "none"

\* get_address is back (or raised): the address, else the placeholder, else None
GeoFallback ==
    /\ gpc = "primary"
    /\ rpc \in {"returned", "raised"}
    /\ address' = get_address_with_fallback(PrimaryOutcome, lat, lon)
    /\ gpc' = "done"
    /\ UNCHANGED <<harvestVars, searchVars, parseVars, gridVars, reqVars, lat, lon>>

NextGeo ==
    \/ GeoCall
    \/ GeoAttempt
    \/ GeoFallback
SpecGeo == InitGeo /\ [][NextGeo]_vars

\* every attempt made so far met a RequestException
AllTransient == \A n \in 1..Len(responses) : responses[n] = "RequestException"

\* the coordinate placeholder of the fallback
Placeholder == <<"Location at coordinates", lat, lon>>

\* C11: with a primary lookup that fails (returns None or raises),
\* get_address_with_fallback returns the placeholder built from both
\* coordinates, never None, for every non-null pair, 0 included.
C11_FallbackNeverNone ==
    (gpc = "done" /\ PrimaryOutcome # "found") => address = Placeholder

\* C12: get_address_from_coordinates makes at most max_retries requests, makes
\* none after a response, returns what the first response holds (its
\* display_name, None without one), and returns None without raising once
\* max_retries requests have all met a RequestException.
C12_RetriesThenNone ==
    /\ Len(responses) <= max_retries
    /\ \A n \in 1..(Len(responses) - 1) : responses[n] = "RequestException"
    /\ rpc = "returned" =>
          /\ Len(responses) >= 1
          /\ responses[Len(responses)] = "display_name" => rret = ResolvedAddress
          /\ responses[Len(responses)] = "no_display_name" => rret = None
          /\ responses[Len(responses)] = "RequestException" =>
                Len(responses) = max_retries /\ rret = None
          /\ responses[Len(responses)] # "Exception"
    /\ (Len(responses) = max_retries /\ AllTransient) =>
          rpc = "returned" /\ rret = None
    /\ rpc = "raised" => responses[Len(responses)] = "Exception"

\* C12 witness: a call with several attempts, all failed, that returned None
C12_Witness ==
    /\ rpc = "returned"
    /\ max_retries >= 2
    /\ Len(responses) = max_retries
    /\ AllTransient
    /\ rret = None

----------------------------------------------------------------------------
(* api_client.py, improved_scrapers.py: _make_request (the same code in both *)
(* clients), step by step                                                   *)

\* the method argument: the two the code supports, and one it does not
Methods == {"GET", "POST", "PUT"}

\* the JSON a successful request may return: the three envelopes the search
\* functions probe, a bare list, a dict with none of the probed keys, a dict
\* whose "results" is not a container (null, a number), and a JSON scalar
ResponseShapes == {"results.campgrounds", "campgrounds", "data", "list",
                   "other_keys", "results_not_container", "scalar"}

\* _make_request(method, ...) is about to be called
InitRequest ==
    /\ InitStore /\ InitLateIdle /\ InitRunIdle /\ InitGeoIdle
    /\ InitSearchIdle /\ InitParseIdle /\ InitGridIdle
    /\ max_retries \in 1..MaxRetries
    /\ method \in Methods
    /\ attempt = 0
    /\ responses = <<>>
    /\ sleeps = <<>>
    /\ rpc = "idle"
    /\ rret = None

\* the retry loop is entered
MakeRequestCall ==
    /\ rpc = "idle"
    /\ rpc' = "try"
    /\ attempt' = 0
    /\ UNCHANGED <<harvestVars, searchVars, parseVars, gridVars, geoVars, max_retries, method,
                   responses, sleeps, rret>>

\* a retry loop that sleeps and goes on after its last attempt as well
MakeRequestAttemptOffByOne ==
    /\ rpc = "try"
    /\ IF method \notin {"GET", "POST"}
       THEN /\ responses' = Append(responses, "ValueError")
            /\ rpc' = "raised"
            /\ UNCHANGED rret
       ELSE \E met \in {"ok", "RequestException"} :
               /\ responses' = Append(responses, met)
               /\ IF met = "ok"
                  THEN /\ rpc' = "returned"
                       /\ \E shape \in ResponseShapes : rret' = <<"json", shape>>
                  ELSE /\ rpc' = IF attempt < max_retries THEN "sleep" ELSE "raised"
                       /\ UNCHANGED rret
    /\ UNCHANGED <<harvestVars, searchVars, parseVars, gridVars, geoVars, max_retries, method,
                   attempt, sleeps>>

\* one attempt: the request, its JSON returned, or the except clause, which
\* goes to sleep before the next attempt or re-raises after the last one
MakeRequestAttempt ==
    /\ rpc = "try"
    /\ IF method \notin {"GET", "POST"}
       THEN /\ responses' = Append(responses, "ValueError")
            /\ rpc' = "raised"
            /\ UNCHANGED rret
       ELSE \E met \in {"ok", "RequestException"} :
               /\ responses' = Append(responses, met)
               /\ IF met = "ok"
                  THEN /\ rpc' = "returned"
                       /\ \E shape \in ResponseShapes : rret' = <<"json", shape>>
                  ELSE /\ rpc' = IF attempt < max_retries - 1 THEN "sleep" ELSE "raised"
                       /\ UNCHANGED rret
    /\ UNCHANGED <<harvestVars, searchVars, parseVars, gridVars, geoVars, max_retries, method,
                   attempt, sleeps>>

\* time.sleep(backoff) of the except clause, then the next turn of the loop
MakeRequestSleep ==
    /\ rpc = "sleep"
    /\ sleeps' = Append(sleeps, attempt)
    /\ attempt' = attempt + 1
    /\ rpc' = "try"
    /\ UNCHANGED <<harvestVars, searchVars, parseVars, gridVars, geoVars, max_retries, method,
                   responses, rret>>

NextRequest ==
    \/ MakeRequestCall
    \/ MakeRequestAttempt
    \/ MakeRequestSleep
SpecRequest == InitRequest /\ [][NextRequest]_vars

\* C13: _make_request makes between 1 and max_retries attempts; none follows a
\* successful one, whose response it returns; a backoff is slept after every
\* failed attempt but the last, and is always followed by an attempt; when
\* max_retries attempts have all met a RequestException it raises.
C13_AttemptsAndBackoff ==
    /\ Len(responses) <= max_retries
    /\ rpc \in {"returned", "raised"} => Len(responses) >= 1
    /\ \A n \in 1..(Len(responses) - 1) : responses[n] = "RequestException"
    /\ rpc = "returned" <=>
          (Len(responses) >= 1 /\ responses[Len(responses)] = "ok")
    /\ rpc = "returned" => rret # None
    /\ \A n \in 1..Len(sleeps) : sleeps[n] = n - 1
    /\ rpc = "try" => Len(sleeps) = Len(responses) /\ Len(responses) < max_retries
    /\ rpc \in {"sleep", "returned", "raised"} => Len(sleeps) = Len(responses) - 1
    /\ (Len(responses) = max_retries /\ AllTransient) => rpc = "raised"

\* C13 witness: every one of several attempts failed, a backoff was slept
\* between them, and the error was raised
C13_Witness ==
    /\ rpc = "raised"
    /\ max_retries >= 2
    /\ Len(responses) = max_retries
    /\ AllTransient
    /\ Len(sleeps) = max_retries - 1

----------------------------------------------------------------------------
(* improved_scrapers.py: search_campgrounds_paginated, and api_client.py:    *)
(* search_campgrounds, step by step                                          *)

\* meta.total_pages as a response reports it: not at all, or a count, which
\* may lie beyond any max_pages
ReportedTotals == {Absent} \cup {<<"count", n>> : n \in 1..(MaxPages + 1)}

\* a missing meta.total_pages read as "more pages than max_pages"
TotalPagesUnknownMany(reported) ==
    IF reported = Absent THEN MaxPages + 1 ELSE reported[2]

\* response.get("meta", {}).get("total_pages", 1)
TotalPagesOf(reported) == IF reported = Absent THEN 1 ELSE reported[2]

\* the dict envelopes the code probes, which carry meta
DictEnvelopes == {"results.campgrounds", "campgrounds", "data"}
RecognisedShapes == DictEnvelopes \cup {"list"}

\* what a page request meets: _make_request raises after its retries, or
\* returns JSON of some shape, with a number of records and a reported total
PageResponses(limit) ==
    {[status |-> "error", shape |-> "none", count |-> 0, total |-> Absent]}
    \cup [status : {"ok"}, shape : DictEnvelopes, count : 0..limit,
          total : ReportedTotals]
    \cup [status : {"ok"}, shape : {"list"}, count : 0..limit, total : {Absent}]
    \cup [status : {"ok"}, shape : ResponseShapes \ RecognisedShapes,
          count : {0}, total : {Absent}]

\* the records the source holds on page p when it returns c of them
RecordsOfPage(p, c) == [m \in 1..c |-> <<"record", p, m>>]

\* the probing of the response: whether it raises (the membership test on a
\* "results" that is no container is a TypeError), the number of records
\* taken, total_pages, and whether the payload is dumped to a file
Extract(r) ==
    CASE r.shape \in DictEnvelopes ->
            [raises |-> FALSE, count |-> r.count,
             total_pages |-> TotalPagesOf(r.total), dump |-> FALSE]
      [] r.shape = "list" ->
            [raises |-> FALSE, count |-> r.count, total_pages |-> 1, dump |-> FALSE]
      [] r.shape = "other_keys" ->
            [raises |-> FALSE, count |-> 0, total_pages |-> 1, dump |-> TRUE]
      [] r.shape = "results_not_container" ->
            [raises |-> TRUE, count |-> 0, total_pages |-> 1, dump |-> FALSE]
      [] OTHER ->
            [raises |-> FALSE, count |-> 0, total_pages |-> 1, dump |-> FALSE]

\* a region-level fetch is about to be called
InitSearch ==
    /\ InitStore /\ InitLateIdle /\ InitRunIdle
    /\ InitReqIdle /\ InitGeoIdle /\ InitParseIdle /\ InitGridIdle
    /\ searcher \in {"search_campgrounds_paginated", "search_campgrounds"}
    /\ max_pages \in 1..MaxPages
    /\ per_page \in 1..PerPage
    /\ fpc = "idle"
    /\ requested = <<>>
    /\ dumps = {}

\* the function is entered: all_campgrounds = [], page = 1
SearchCall ==
    /\ fpc = "idle"
    /\ fpc' = "loop"
    /\ page' = 1
    /\ campground_data' = <<>>
    /\ UNCHANGED <<storeVars, runRest, runHist, runGhost, runRes, lateVars, reqVars, geoVars, parseVars,
                   gridVars, searcher, max_pages, per_page, requested, dumps>>

\* a page loop without the max_pages test
SearchPageUnbounded ==
    /\ searcher = "search_campgrounds_paginated"
    /\ fpc = "loop"
    /\ \E r \in PageResponses(per_page) :
          /\ requested' = Append(requested, [page |-> page, met |-> r])
          /\ IF r.status = "error" \/ Extract(r).raises
             THEN /\ fpc' = "returned"
                  /\ UNCHANGED <<page, campground_data, dumps>>
             ELSE /\ campground_data' =
                        campground_data \o RecordsOfPage(page, Extract(r).count)
                  /\ dumps' = IF Extract(r).dump THEN dumps \cup {page} ELSE dumps
                  /\ IF \/ Extract(r).count < per_page
                        \/ page >= Extract(r).total_pages
                     THEN fpc' = "returned" /\ page' = page
                     ELSE page' = page + 1 /\ fpc' = "loop"
    /\ UNCHANGED <<storeVars, runRest, runHist, runGhost, runRes, lateVars, reqVars, geoVars, parseVars,
                   gridVars, searcher, max_pages, per_page>>

\* a page loop that goes one page beyond the reported total
SearchPageBeyondTotal ==
    /\ searcher = "search_campgrounds_paginated"
    /\ fpc = "loop"
    /\ \E r \in PageResponses(per_page) :
          /\ requested' = Append(requested, [page |-> page, met |-> r])
          /\ IF r.status = "error" \/ Extract(r).raises
             THEN /\ fpc' = "returned"
                  /\ UNCHANGED <<page, campground_data, dumps>>
             ELSE /\ campground_data' =
                        campground_data \o RecordsOfPage(page, Extract(r).count)
                  /\ dumps' = IF Extract(r).dump THEN dumps \cup {page} ELSE dumps
                  /\ IF \/ Extract(r).count < per_page
                        \/ page > Extract(r).total_pages
                     THEN fpc' = "returned" /\ page' = page
                     ELSE /\ page' = page + 1
                          /\ fpc' = IF page + 1 <= max_pages THEN "loop"
                                    ELSE "returned"
    /\ UNCHANGED <<storeVars, runRest, runHist, runGhost, runRes, lateVars, reqVars, geoVars, parseVars,
                   gridVars, searcher, max_pages, per_page>>

\* one turn of the loop of search_campgrounds_paginated: the request, the
\* probing, the records added, the last-page test, page += 1 and the while
\* test. Whatever is raised inside is caught by except Exception, which breaks.
SearchPage ==
    /\ searcher = "search_campgrounds_paginated"
    /\ fpc = "loop"
    /\ \E r \in PageResponses(per_page) :
          /\ requested' = Append(requested, [page |-> page, met |-> r])
          /\ IF r.status = "error" \/ Extract(r).raises
             THEN /\ fpc' = "returned"
                  /\ UNCHANGED <<page, campground_data, dumps>>
             ELSE /\ campground_data' =
                        campground_data \o RecordsOfPage(page, Extract(r).count)
                  /\ dumps' = IF Extract(r).dump THEN dumps \cup {page} ELSE dumps
                  /\ IF \/ Extract(r).count < per_page
                        \/ page >= Extract(r).total_pages
                     THEN fpc' = "returned" /\ page' = page
                     ELSE /\ page' = page + 1
                          /\ fpc' = IF page + 1 <= max_pages THEN "loop"
                                    ELSE "returned"
    /\ UNCHANGED <<storeVars, runRest, runHist, runGhost, runRes, lateVars, reqVars, geoVars, parseVars,
                   gridVars, searcher, max_pages, per_page>>

\* search_campgrounds of DyrtApiClient: one request for page 1, nothing caught
SearchPlain ==
    /\ searcher = "search_campgrounds"
    /\ fpc = "loop"
    /\ \E r \in PageResponses(per_page) :
          /\ requested' = Append(requested, [page |-> page, met |-> r])
          /\ IF r.status = "error" \/ Extract(r).raises
             THEN /\ fpc' = "raised"
                  /\ UNCHANGED <<campground_data, dumps>>
             ELSE /\ campground_data' = RecordsOfPage(page, Extract(r).count)
                  /\ dumps' = IF Extract(r).dump THEN dumps \cup {page} ELSE dumps
                  /\ fpc' = "returned"
    /\ UNCHANGED <<storeVars, runRest, runHist, runGhost, runRes, lateVars, reqVars, geoVars, parseVars,
                   gridVars, searcher, max_pages, per_page, page>>

NextSearch ==
    \/ SearchCall
    \/ SearchPage
    \/ SearchPlain
SpecSearch == InitSearch /\ [][NextSearch]_vars
\* the fetch is not suspended for ever
SpecSearchFair == SpecSearch /\ WF_vars(NextSearch)

\* the fetch is over
SearchOver == fpc \in {"returned", "raised"}

\* C14: when a page request has failed after its retries, the region-level
\* fetch does not return a list to its caller.
C14_FailurePropagates ==
    (\E n \in 1..Len(requested) : requested[n].met.status = "error")
        => fpc # "returned"

\* C15: search_campgrounds_paginated makes at most max_pages page requests,
\* the n-th of them for page n, whatever the source answers, and ends.
C15_BoundedPagination ==
    /\ [](searcher = "search_campgrounds_paginated" =>
            /\ Len(requested) <= max_pages
            /\ \A n \in 1..Len(requested) : requested[n].page = n)
    /\ <>SearchOver

\* C15 witness: a source that always returned full pages and a total beyond
\* the page asked was stopped by max_pages, after several pages
C15_Witness ==
    /\ searcher = "search_campgrounds_paginated"
    /\ fpc = "returned"
    /\ max_pages >= 2
    /\ Len(requested) = max_pages
    /\ \A n \in 1..Len(requested) :
          /\ requested[n].met.status = "ok"
          /\ requested[n].met.count = per_page
          /\ requested[n].met.total = <<"count", n + 1>>

\* the loop stopped after the n-th request
StoppedAfter(n) == n = Len(requested) /\ fpc = "returned"

\* all the records of the pages answered so far, in the order of the pages
RECURSIVE PagesConcat(_)
PagesConcat(n) ==
    IF n = 0 THEN <<>>
    ELSE PagesConcat(n - 1) \o
         (IF requested[n].met.status = "error" THEN <<>>
          ELSE RecordsOfPage(requested[n].page, requested[n].met.count))

\* a source that answers every request with a recognised dict envelope, reports
\* the same P <= max_pages each time, and fills every page before page P
WellBehaved(P) ==
    /\ P <= max_pages
    /\ \A n \in 1..Len(requested) :
          /\ requested[n].met.status = "ok"
          /\ requested[n].met.shape \in DictEnvelopes
          /\ requested[n].met.total = <<"count", P>>
          /\ requested[n].page < P => requested[n].met.count = per_page

\* the result for a well-behaved source: pages 1..P, concatenated in order
WellBehavedResult ==
    /\ campground_data = PagesConcat(Len(requested))
    /\ \A P \in 1..MaxPages :
          (fpc = "returned" /\ WellBehaved(P)) =>
              /\ Len(requested) = P
              /\ \A n \in 1..P : requested[n].page = n

C17_UnrecognisedIsEmpty ==
    \A n \in 1..Len(requested) :
        (/\ requested[n].met.status = "ok"
         /\ requested[n].met.shape \notin RecognisedShapes)
            => /\ fpc # "raised"
               /\ requested[n].page \in dumps
               /\ campground_data = PagesConcat(Len(requested))

----------------------------------------------------------------------------
(* parse_and_validate_campgrounds (the same code in both clients), step by step *)

\* longest list handed to parse_and_validate_campgrounds
MaxParse == 2

\* the raw records of the lists: two that are complete, four that lack one
\* key each, one whose id is null, one whose latitude is text, and a JSON null
\* in the place of a record
RawInputs ==
    {RawObject(<<"str", "c1">>, <<"str", "n1">>, <<"float", 1>>, <<"float", 1>>),
     RawObject(<<"str", "c2">>, <<"str", "n1">>, <<"numstr", 1>>, <<"float", 1>>),
     RawObject(Absent, <<"str", "n1">>, <<"float", 1>>, <<"float", 1>>),
     RawObject(<<"str", "c1">>, Absent, <<"float", 1>>, <<"float", 1>>),
     RawObject(<<"str", "c1">>, <<"str", "n1">>, Absent, <<"float", 1>>),
     RawObject(<<"str", "c1">>, <<"str", "n1">>, <<"float", 1>>, Absent),
     RawObject(<<"null", 0>>, <<"str", "n1">>, <<"float", 1>>, <<"float", 1>>),
     RawObject(<<"str", "c1">>, <<"str", "n1">>, <<"text", "n/a">>, <<"float", 1>>),
     [json |-> "null", id |-> Absent, name |-> Absent,
      latitude |-> Absent, longitude |-> Absent]}

\* parse_and_validate_campgrounds(campground_data) is about to be called
InitParse ==
    /\ InitStore /\ InitLateIdle
    /\ InitReqIdle /\ InitGeoIdle /\ InitSearchIdle /\ InitGridIdle
    /\ campground_data \in SeqsUpTo(RawInputs, MaxParse)
    /\ pc = "idle" /\ resume = FALSE /\ stats = EmptyStats
    /\ total_campgrounds = 0 /\ processed_cells = {} /\ i = 0 /\ page = 0
    /\ statsFile = EmptyStats /\ outcome = "none" /\ result = 0 /\ runs = 0
    /\ fetchLog = <<>> /\ lastPersist = NoCell /\ failedCell = NoCell
    /\ startCompleted = {} /\ startRows = {} /\ fileBeforeCell = EmptyStats
    /\ writtenIds = {} /\ idsInFile = {} /\ wrote = FALSE
    /\ storedByRun = 0 /\ pacing = "none"
    /\ db_open = FALSE /\ client_open = FALSE
    /\ ppc = "idle"
    /\ pidx = 0
    /\ validated_campgrounds = <<>>

\* the function is entered: validated_campgrounds = []
ParseCall ==
    /\ ppc = "idle"
    /\ ppc' = "loop"
    /\ pidx' = 0
    /\ validated_campgrounds' = <<>>
    /\ UNCHANGED <<harvestVars, reqVars, geoVars, searchVars, gridVars>>

\* one turn of the loop: map and construct inside the try; a ValidationError or
\* any other exception is logged with data.get('id', 'unknown') and the record
\* skipped; that logging raises in its turn when data has no get
ParseRecord ==
    /\ ppc = "loop"
    /\ pidx < Len(campground_data)
    /\ LET data == campground_data[pidx + 1] IN
          IF data.json # "object"
          THEN /\ ppc' = "raised"
               /\ UNCHANGED <<pidx, validated_campgrounds>>
          ELSE /\ pidx' = pidx + 1
               /\ ppc' = "loop"
               /\ validated_campgrounds' =
                     IF ~MapRaises(data) /\ Validates(map_api_response_to_model(data))
                     THEN Append(validated_campgrounds,
                                 CampgroundOf(map_api_response_to_model(data)))
                     ELSE validated_campgrounds
    /\ UNCHANGED <<harvestVars, reqVars, geoVars, searchVars, gridVars>>

\* the loop is over: return validated_campgrounds
ParseReturn ==
    /\ ppc = "loop"
    /\ pidx = Len(campground_data)
    /\ ppc' = "returned"
    /\ UNCHANGED <<harvestVars, reqVars, geoVars, searchVars, gridVars, pidx,
                   validated_campgrounds>>

NextParse ==
    \/ ParseCall
    \/ ParseRecord
    \/ ParseReturn
SpecParse == InitParse /\ [][NextParse]_vars

\* the records of a list that map and validate, each on its own, in order
ValidOnes(data) ==
    LET kept == SelectSeq(data, Kept)
    IN [n \in 1..Len(kept) |-> CampgroundOf(map_api_response_to_model(kept[n]))]

\* the raw record has its id, name, latitude and longitude keys
HasAllKeys(data) ==
    /\ data.id # Absent
    /\ data.name # Absent
    /\ data.latitude # Absent
    /\ data.longitude # Absent

\* C18: parse_and_validate_campgrounds does not raise because of a record,
\* and returns, in input order, exactly the records that map and validate.
C18_NeverRaises ==
    /\ ppc # "raised"
    /\ ppc = "returned" => validated_campgrounds = ValidOnes(campground_data)

\* C19: the list returned is the one the batch would give without its records
\* that lack the id, name, latitude or longitude key: those are excluded, the
\* others validated as if they were absent.
C19_MissingKeyExcluded ==
    ppc = "returned" =>
        validated_campgrounds = ValidOnes(SelectSeq(campground_data, HasAllKeys))

----------------------------------------------------------------------------
(* _generate_grid_bounds (improved_scrapers.py; scraper.py has the same code *)
(* without cell_id), step by step.                                          *)
(* lon_step = (east - west) / GRID_SIZE need not be a whole number, so every *)
(* coordinate of a cell is kept multiplied by GRID_SIZE: west stands for     *)
(* GRID_SIZE * west, which is GRID_SIZE * US_BOUNDS.west + j * (east - west) *)

\* largest grid dimension of the partitioner
MaxGrid == 3

\* the bounding rectangles: US_BOUNDS of the code among them
Rectangles ==
    {r \in [west : {-125, -1, 0}, east : {-66, 2}, south : {0, 24}, north : {1, 49}] :
        r.west < r.east /\ r.south < r.north}

\* _generate_grid_bounds is about to be called
InitGrid ==
    /\ InitStore /\ InitLateIdle /\ InitRunIdle
    /\ InitReqIdle /\ InitGeoIdle /\ InitSearchIdle /\ InitParseIdle
    /\ GRID_SIZE \in 1..MaxGrid
    /\ US_BOUNDS \in Rectangles
    /\ gridpc = "idle"
    /\ gi = 0
    /\ gj = 0
    /\ grid_bounds = <<>>
    /\ grid_before = <<>>

\* GRID_SIZE * lon_step and GRID_SIZE * lat_step
lon_step == US_BOUNDS.east - US_BOUNDS.west
lat_step == US_BOUNDS.north - US_BOUNDS.south

\* the steps are computed, grid_bounds = [], the loops are entered
GridCall ==
    /\ gridpc = "idle"
    /\ gridpc' = "loop"
    /\ gi' = 0
    /\ gj' = 0
    /\ grid_bounds' = <<>>
    /\ UNCHANGED <<harvestVars, reqVars, geoVars, searchVars, parseVars,
                   GRID_SIZE, US_BOUNDS, grid_before>>

\* a cell whose south and north are computed from the column index
GridCellByColumn ==
    /\ gridpc = "loop"
    /\ gi < GRID_SIZE
    /\ grid_bounds' = Append(grid_bounds,
          [cell_id |-> CellId(gi, gj), row |-> gi, col |-> gj,
           west  |-> GRID_SIZE * US_BOUNDS.west + gj * lon_step,
           east  |-> GRID_SIZE * US_BOUNDS.west + (gj + 1) * lon_step,
           south |-> GRID_SIZE * US_BOUNDS.south + gj * lat_step,
           north |-> GRID_SIZE * US_BOUNDS.south + (gj + 1) * lat_step])
    /\ IF gj + 1 < GRID_SIZE
       THEN gj' = gj + 1 /\ gi' = gi
       ELSE gj' = 0 /\ gi' = gi + 1
    /\ UNCHANGED <<harvestVars, reqVars, geoVars, searchVars, parseVars,
                   GRID_SIZE, US_BOUNDS, gridpc, grid_before>>

\* the body of the inner loop for (i, j), then the next j, or the next i
GridCell ==
    /\ gridpc = "loop"
    /\ gi < GRID_SIZE
    /\ grid_bounds' = Append(grid_bounds,
          [cell_id |-> CellId(gi, gj), row |-> gi, col |-> gj,
           west  |-> GRID_SIZE * US_BOUNDS.west + gj * lon_step,
           east  |-> GRID_SIZE * US_BOUNDS.west + (gj + 1) * lon_step,
           south |-> GRID_SIZE * US_BOUNDS.south + gi * lat_step,
           north |-> GRID_SIZE * US_BOUNDS.south + (gi + 1) * lat_step])
    /\ IF gj + 1 < GRID_SIZE
       THEN gj' = gj + 1 /\ gi' = gi
       ELSE gj' = 0 /\ gi' = gi + 1
    /\ UNCHANGED <<harvestVars, reqVars, geoVars, searchVars, parseVars,
                   GRID_SIZE, US_BOUNDS, gridpc, grid_before>>

\* the loops are over: return grid_bounds
GridReturn ==
    /\ gridpc = "loop"
    /\ gi = GRID_SIZE
    /\ gridpc' = "returned"
    /\ UNCHANGED <<harvestVars, reqVars, geoVars, searchVars, parseVars,
                   GRID_SIZE, US_BOUNDS, gi, gj, grid_bounds, grid_before>>

\* the method is called a second time on the same scraper: the list of the
\* first call is kept aside, the loops start afresh
GridCallAgain ==
    /\ gridpc = "returned"
    /\ grid_before = <<>>
    /\ grid_before' = grid_bounds
    /\ gridpc' = "loop"
    /\ gi' = 0
    /\ gj' = 0
    /\ grid_bounds' = <<>>
    /\ UNCHANGED <<harvestVars, reqVars, geoVars, searchVars, parseVars,
                   GRID_SIZE, US_BOUNDS>>

NextGrid ==
    \/ GridCall
    \/ GridCell
    \/ GridReturn
    \/ GridCallAgain
SpecGrid == InitGrid /\ [][NextGrid]_vars

\* the cell of row r and column c in the list returned
CellAt(r, c) == grid_bounds[r * GRID_SIZE + c + 1]

\* the areas of the first n cells, added up
RECURSIVE AreaSum(_)
AreaSum(n) ==
    IF n = 0 THEN 0
    ELSE AreaSum(n - 1)
         + (grid_bounds[n].east - grid_bounds[n].west)
           * (grid_bounds[n].north - grid_bounds[n].south)

\* two cells have no interior point in common
NoOverlap(a, b) ==
    \/ a.east <= b.west \/ b.east <= a.west
    \/ a.north <= b.south \/ b.north <= a.south

\* C20: _generate_grid_bounds returns GRID_SIZE * GRID_SIZE cells in row-major
\* order that tile the rectangle: neighbours share their edge, the outer edges
\* are those of the rectangle, no two cells overlap, every cell lies in the
\* rectangle and the areas add up to its area (so the union is the rectangle).
C20_GridTiles ==
    gridpc = "returned" =>
        /\ Len(grid_bounds) = GRID_SIZE * GRID_SIZE
        /\ \A r, c \in 0..(GRID_SIZE - 1) :
              /\ CellAt(r, c).row = r /\ CellAt(r, c).col = c
              /\ CellAt(r, c).west < CellAt(r, c).east
              /\ CellAt(r, c).south < CellAt(r, c).north
              /\ c + 1 < GRID_SIZE => CellAt(r, c).east = CellAt(r, c + 1).west
              /\ r + 1 < GRID_SIZE => CellAt(r, c).north = CellAt(r + 1, c).south
              /\ c = 0 => CellAt(r, c).west = GRID_SIZE * US_BOUNDS.west
              /\ c = GRID_SIZE - 1 => CellAt(r, c).east = GRID_SIZE * US_BOUNDS.east
              /\ r = 0 => CellAt(r, c).south = GRID_SIZE * US_BOUNDS.south
              /\ r = GRID_SIZE - 1 => CellAt(r, c).north = GRID_SIZE * US_BOUNDS.north
              /\ CellAt(r, c).west >= GRID_SIZE * US_BOUNDS.west
              /\ CellAt(r, c).east <= GRID_SIZE * US_BOUNDS.east
              /\ CellAt(r, c).south >= GRID_SIZE * US_BOUNDS.south
              /\ CellAt(r, c).north <= GRID_SIZE * US_BOUNDS.north
        /\ \A m, n \in 1..Len(grid_bounds) :
              m # n => NoOverlap(grid_bounds[m], grid_bounds[n])
        /\ AreaSum(Len(grid_bounds)) =
              (GRID_SIZE * lon_step) * (GRID_SIZE * lat_step)

\* C20 witness: the rectangle of the code cut into a grid of several rows
C20_Witness ==
    /\ gridpc = "returned"
    /\ GRID_SIZE >= 2
    /\ US_BOUNDS = [west |-> -125, east |-> -66, south |-> 24, north |-> 49]
    /\ Len(grid_bounds) = GRID_SIZE * GRID_SIZE

\* the largest row or column index whose id is compared with the others
MaxIndex == 11

\* the ids of the list, in order
IdsOf(cells) == [n \in 1..Len(cells) |-> cells[n].cell_id]

\* C21: the region ids of _generate_grid_bounds are the strings "row-col" in
\* row-major order, pairwise distinct (the separator keeps "1-11" and "11-1"
\* apart), and a second call for the same grid size returns the same ids on
\* the same rectangles in the same order; grid size 2 gives 0-0, 0-1, 1-0, 1-1.
C21_RegionIds ==
    /\ \A r1, c1, r2, c2 \in 0..MaxIndex :
          CellId(r1, c1) = CellId(r2, c2) => r1 = r2 /\ c1 = c2
    /\ gridpc = "returned" =>
          /\ \A r, c \in 0..(GRID_SIZE - 1) :
                CellAt(r, c).cell_id = Decimal(r) \o <<"-">> \o Decimal(c)
          /\ \A m, n \in 1..Len(grid_bounds) :
                grid_bounds[m].cell_id = grid_bounds[n].cell_id => m = n
          /\ grid_before # <<>> => grid_bounds = grid_before
          /\ GRID_SIZE = 2 =>
                IdsOf(grid_bounds) = << <<"0", "-", "0">>, <<"0", "-", "1">>,
                                       <<"1", "-", "0">>, <<"1", "-", "1">> >>

\* C21 witness: the second call of a grid of several rows has returned
C21_Witness ==
    /\ gridpc = "returned"
    /\ GRID_SIZE >= 2
    /\ grid_before # <<>>
    /\ Len(grid_bounds) = GRID_SIZE * GRID_SIZE

----------------------------------------------------------------------------
(* ImprovedDyrtScraper.run: what it returns, what a fresh run writes, regions
   without records, pacing *)

\* C22: the value run returns is the number of records this invocation stored,
\* also when it resumed from a checkpoint whose lifetime total is above zero.
C22_ReturnsThisRunOnly ==
    (pc = "idle" /\ outcome = "returned") => result = storedByRun

\* the ids of the first n cells of the grid, in order
FirstCells(n) == [m \in 1..n |-> generate_grid_bounds[m].cell_id]

\* C23: a run with resume = False fetches every region in grid order whatever
\* the stats file lists, and once it has written the file, the file lists only
\* regions this run went through and its total counts only records this run
\* stored.
C23_FreshRunIgnoresCheckpoint ==
    (runs >= 1 /\ ~resume) =>
        /\ fetchLog = FirstCells(Len(fetchLog))
        /\ pc \in {"loop", "idle"} /\ outcome # "crashed" /\ outcome # "raised"
              => Len(fetchLog) = (IF pc = "idle" THEN NumCells ELSE i - 1)
        /\ (wrote /\ statsFile # Corrupt) =>
              /\ statsFile.processed_cells \subseteq Range(fetchLog)
              /\ statsFile.total_campgrounds = storedByRun

\* C23 witness: an earlier run returned with records stored (its file lists every
\* region); a second run with resume = False has checkpointed its first region
\* only, and refetches
C23_Witness ==
    /\ runs = 2 /\ ~resume
    /\ result >= 1
    /\ pc = "fetch"
    /\ Len(fetchLog) = 2
    /\ wrote
    /\ statsFile.processed_cells = {fetchLog[1]}
    /\ statsFile.total_campgrounds = storedByRun

\* C25: a region whose fetch succeeds with no record is added to the completed
\* set and the stats file is saved with it, without a call of store_campgrounds
\* and with the total left as it was; a resumed run never fetches a region its
\* stats file listed.
C25_EmptyRegionCompleted ==
    /\ [][(/\ pc = "fetched" /\ campground_data = <<>> /\ failedCell = NoCell
           /\ pc' = "loop")
          => /\ CurrentCell \in processed_cells'
             /\ CurrentCell \in FileCells(statsFile')
             /\ statsFile'.total_campgrounds = total_campgrounds
             /\ total_campgrounds' = total_campgrounds
             /\ spc' = "idle" /\ table' = table /\ pending' = pending
             /\ lastPersist' # CurrentCell]_vars
    /\ [](resume => \A n \in 1..Len(fetchLog) : fetchLog[n] \notin startCompleted)

\* C25 witness: the run is back at the loop after a region whose fetch succeeded
\* without records; the file lists the region, persist was not called for it
C25_Witness ==
    /\ pc = "loop"
    /\ Len(fetchLog) >= 1
    /\ failedCell = NoCell
    /\ lastPersist # fetchLog[Len(fetchLog)]
    /\ fetchLog[Len(fetchLog)] \in FileCells(statsFile)
    /\ wrote

\* C26: the first source request of a region is never made after a source
\* request of the previous region without a pacing sleep in between.
C26_PacedBetweenRegions ==
    (pc = "fetch" /\ page = 1) => pacing # "requested"

----------------------------------------------------------------------------
(* geocoding.py, api_client.py: the delays of the two retry loops *)

\* self.retry_delay of both classes (default 1.0 s), in tenths of a second
retry_delay == 10

\* _make_request: backoff = retry_delay * (2 ** attempt) + (0.1 * attempt), in
\* tenths of a second, slept after attempt `n` failed
MakeRequestBackoff(n) == retry_delay * (2 ^ n) + n

\* get_address_from_coordinates: backoff = retry_delay * (2 ** attempt), in
\* tenths of a second, slept at the start of attempt `n` > 0
GeoBackoff(n) == retry_delay * (2 ^ n)

\* C27: the delay the Geocoder sleeps before its n-th retry is the delay the
\* source client sleeps before its n-th retry, retry_delay * 2^a + 0.1 * a with
\* a the index of the attempt that just failed (a = n - 1).
C27_SameBackoff ==
    gpc # "idle" =>
        \A n \in 1..Len(sleeps) : GeoBackoff(sleeps[n]) = MakeRequestBackoff(n - 1)

----------------------------------------------------------------------------
(* data_processor.py: the geocoder inside store_campgrounds, under SpecStore *)

\* C29: a record that carries a non-empty address is stored with exactly that
\* address and without a call of the geocoder; the geocoder is called at most
\* once for each record of the batch.
C29_CarriedAddressKept ==
    Upserting =>
        /\ Len(geos) = k
        /\ \A n \in 1..k :
              /\ geos[n] \in GeoOutcomes \cup {"notcalled"}
              /\ TruthyStr(campgrounds[n].address) => geos[n] = "notcalled"
        /\ TruthyStr(LastRecord.address) => LastRow.address = LastRecord.address

\* C29 witness: the second record of a batch carries an address and goes over
\* a row of its id; the geocoder was called for the first record only
C29_Witness ==
    /\ Upserting
    /\ k = 2
    /\ geos[1] # "notcalled"
    /\ LastRecord.address = CarriedAddress
    /\ geos[2] = "notcalled"
    /\ prev # NoRow
    /\ LastRow.address = CarriedAddress

\* the geocoder was called for the n-th record and gave nothing
GeocoderFailed(gs, n) == gs[n] \in {"none", "raise"}

\* the last position of the batch that holds the id of position n
LastOf(n) ==
    CHOOSE m \in n..Len(campgrounds) :
        /\ campgrounds[m].id = campgrounds[n].id
        /\ \A j \in (m + 1)..Len(campgrounds) : campgrounds[j].id # campgrounds[n].id

\* C30: the step of store_campgrounds in which the geocoder fails (returns
\* nothing or raises) does not raise: it upserts the record with its other
\* fields and a null address and goes on with the loop; a batch that committed
\* holds a row for every such record.
C30_GeocoderFailureKeepsRecord ==
    /\ [][(/\ spc = "loop"
           /\ Len(geos') = Len(geos) + 1
           /\ GeocoderFailed(geos', Len(geos')))
          => /\ spc' = "loop"
             /\ k' = k + 1
             /\ DataOf(RowOrNone(pending', campgrounds[k'].id))
                   = [id |-> campgrounds[k'].id, name |-> campgrounds[k'].name,
                      latitude |-> campgrounds[k'].latitude,
                      longitude |-> campgrounds[k'].longitude,
                      address |-> None]]_vars
    /\ [](spc = "returned" =>
            \A n \in 1..Len(geos) :
                GeocoderFailed(geos, n) =>
                    /\ ret = Len(campgrounds)
                    /\ Cardinality(RowsOf(table, campgrounds[n].id)) = 1
                    /\ LastOf(n) = n =>
                          /\ RowOrNone(table, campgrounds[n].id).address = None
                          /\ RowOrNone(table, campgrounds[n].id).name
                                = campgrounds[n].name)

\* C30 witness: a batch has committed in which the geocoder raised for one
\* record and returned nothing for another; both have their row, address null
C30_Witness ==
    /\ spc = "returned"
    /\ Len(geos) = 2
    /\ geos[1] = "raise" /\ geos[2] = "none"
    /\ campgrounds[1].id # campgrounds[2].id
    /\ \A n \in 1..2 : RowOrNone(table, campgrounds[n].id).address = None
    /\ ret = 2

----------------------------------------------------------------------------
(* api_client.py, improved_scrapers.py: the probing of the response envelope *)

\* the longest list of records a response holds under one key
MaxEnvelope == 1

EnvelopeLists == SeqsUpTo(RawRecords, MaxEnvelope)
KeyValues == {NoKey} \cup {Key(l) : l \in EnvelopeLists}

\* the "results" key: absent, null, or an object with or without "campgrounds"
ResultsValues ==
    {[kind |-> "absent", campgrounds |-> NoKey],
     [kind |-> "null", campgrounds |-> NoKey]}
    \cup {[kind |-> "object", campgrounds |-> c] : c \in KeyValues}

\* the JSON _make_request may return: an object with any of the three keys, a
\* bare array, or a scalar
ProbeResponses ==
    {[kind |-> "object", results |-> r, campgrounds |-> c, data |-> d,
      items |-> <<>>] : r \in ResultsValues, c \in KeyValues, d \in KeyValues}
    \cup {[kind |-> "array", results |-> [kind |-> "absent", campgrounds |-> NoKey],
           campgrounds |-> NoKey, data |-> NoKey, items |-> l] : l \in EnvelopeLists}
    \cup {Scalar}

\* the if / elif chain on the response: campgrounds = [] to start with; the
\* membership test "campgrounds" in response["results"] raises a TypeError on
\* a results that is null
ProbeEnvelope(r) ==
    IF r.kind = "object"
    THEN IF r.results.kind # "absent" /\ r.results.kind = "null"
         THEN [raises |-> TRUE, campgrounds |-> <<>>]
         ELSE IF r.results.kind # "absent" /\ r.results.campgrounds.present
         THEN [raises |-> FALSE, campgrounds |-> r.results.campgrounds.value]
         ELSE IF r.campgrounds.present
         THEN [raises |-> FALSE, campgrounds |-> r.campgrounds.value]
         ELSE IF r.data.present
         THEN [raises |-> FALSE, campgrounds |-> r.data.value]
         ELSE [raises |-> FALSE, campgrounds |-> <<>>]
    ELSE IF r.kind = "array"
         THEN [raises |-> FALSE, campgrounds |-> r.items]
         ELSE [raises |-> FALSE, campgrounds |-> <<>>]

\* a response has come back and is about to be probed
InitProbe ==
    /\ InitStore /\ InitRunIdle
    /\ InitReqIdle /\ InitGeoIdle /\ InitSearchIdle /\ InitParseIdle /\ InitGridIdle
    /\ InitTxIdle /\ InitNewIdle
    /\ json_response \in ProbeResponses
    /\ epc = "idle"
    /\ extracted = <<>>

\* search_campgrounds from the response to its return (or to the exception)
Probe ==
    /\ epc = "idle"
    /\ LET got == ProbeEnvelope(json_response)
       IN /\ epc' = IF got.raises THEN "raised" ELSE "returned"
          /\ extracted' = got.campgrounds
    /\ UNCHANGED <<storeVars, runVars, runHist, runGhost, runRes, reqVars, geoVars,
                   searchVars, parseVars, gridVars, txVars, newVars,
                   json_response>>

NextProbe == Probe
SpecProbe == InitProbe /\ [][NextProbe]_vars

\* the response has a nested results.campgrounds array
HasNested(r) ==
    r.kind = "object" /\ r.results.kind = "object" /\ r.results.campgrounds.present

\* C28: the probing is ordered and the first match wins: a nested
\* results.campgrounds array is returned; otherwise a top-level campgrounds
\* array; otherwise a data array; a bare array is returned itself. A response
\* that matches several shapes gives the earliest one only, never a merge.
C28_FirstMatchWins ==
    epc # "idle" =>
        LET r == json_response
            gives(l) == epc = "returned" /\ extracted = l
        IN IF r.kind = "array" THEN gives(r.items)
           ELSE IF HasNested(r) THEN gives(r.results.campgrounds.value)
           ELSE IF r.kind = "object" /\ r.campgrounds.present
                THEN gives(r.campgrounds.value)
           ELSE IF r.kind = "object" /\ r.data.present THEN gives(r.data.value)
           ELSE TRUE

----------------------------------------------------------------------------
(* api.py, data_processor.py: two harvest runs started by trigger_scraper store
   at the same time. Each run has its own session (SessionLocal()) on the same
   PostgreSQL database, at the default isolation level: a statement sees what
   is committed when it starts and what its own transaction wrote; an insert
   on conflict do update locks the row of its id until its transaction ends,
   and a statement that meets a row locked by the other transaction waits. *)

\* the longest batch of a run that stores at the same time as another
MaxTxBatch == 2

\* the records the two runs draw from: two versions of c1 (one with its address,
\* one to be geocoded), one record of c2 (no geocoding: latitude 0.0)
TxRecords ==
    {c \in Campground :
        /\ c.id = "c1" => ((c.name = "n1") <=> (c.address = CarriedAddress))
        /\ c.id = "c2" => c.latitude = 0}

TxBatches == SeqsUpTo(TxRecords, MaxTxBatch) \ {<<>>}

Other(t) == 3 - t

\* what the session of run t sees: the committed rows, with its own
\* uncommitted rows over them
View(t) ==
    {r \in table : \A w \in sessions[t].writes : w.id # r.id}
    \cup sessions[t].writes

\* run t holds the lock of the row of this id
LockedBy(t, id) ==
    sessions[t].spc = "loop" /\ \E w \in sessions[t].writes : w.id = id

\* the next statement of run t waits for the other run
Blocked(t) ==
    /\ sessions[t].spc = "loop"
    /\ sessions[t].k < Len(sessions[t].campgrounds)
    /\ LockedBy(Other(t), sessions[t].campgrounds[sessions[t].k + 1].id)

\* both runs are inside store_campgrounds, each with its batch
InitTx ==
    /\ InitStore /\ InitRunIdle
    /\ InitReqIdle /\ InitGeoIdle /\ InitSearchIdle /\ InitParseIdle /\ InitGridIdle
    /\ InitProbeIdle /\ InitNewIdle
    /\ sessions \in [Tx -> {[campgrounds |-> b, k |-> 0, writes |-> {},
                             geos |-> <<>>, spc |-> "loop"] : b \in TxBatches}]
    /\ commitLog = <<>>

txFrame == <<pending, spc, campgrounds, k, ret, tableBefore, geos, prev,
             lastCommitted, runVars, runHist, runGhost, runRes, reqVars, geoVars,
             searchVars, parseVars, gridVars, probeVars, newVars>>

\* one turn of the record loop of run t: convert, execute the statement
TxExecute(t) ==
    /\ sessions[t].spc = "loop"
    /\ sessions[t].k < Len(sessions[t].campgrounds)
    /\ ~Blocked(t)
    /\ \E geo \in GeoChoices(sessions[t].campgrounds[sessions[t].k + 1]) :
          LET campground == sessions[t].campgrounds[sessions[t].k + 1]
              db_campground == convert_to_db_model(campground, geo)
              after == Upsert(View(t), db_campground, now)
              mine == {campground.id} \cup {w.id : w \in sessions[t].writes}
          IN sessions' = [sessions EXCEPT ![t] =
                [campgrounds |-> sessions[t].campgrounds,
                 k |-> sessions[t].k + 1,
                 writes |-> {r \in after : r.id \in mine},
                 geos |-> Append(sessions[t].geos, geo),
                 spc |-> "loop"]]
    /\ now' = now + 1
    /\ UNCHANGED <<table, commitLog, txFrame>>

\* self.db.commit() of run t: its rows become the committed ones, its locks go
TxCommit(t) ==
    /\ sessions[t].spc = "loop"
    /\ sessions[t].k = Len(sessions[t].campgrounds)
    /\ table' = View(t)
    /\ sessions' = [sessions EXCEPT ![t].spc = "returned", ![t].writes = {}]
    /\ commitLog' = Append(commitLog, t)
    /\ UNCHANGED <<now, txFrame>>

\* each run waits for a row the other has locked: the database ends the
\* statement of one of them with a deadlock error; it rolls back and re-raises
TxDeadlock(t) ==
    /\ Blocked(t)
    /\ Blocked(Other(t))
    /\ sessions' = [sessions EXCEPT ![t].spc = "raised", ![t].writes = {}]
    /\ UNCHANGED <<table, now, commitLog, txFrame>>

NextTx ==
    \E t \in Tx :
        \/ TxExecute(t)
        \/ TxCommit(t)
        \/ TxDeadlock(t)
SpecTx == InitTx /\ [][NextTx]_vars

\* the last position of the batch that holds the id
LastIndex(batch, id) ==
    CHOOSE n \in 1..Len(batch) :
        batch[n].id = id /\ \A m \in (n + 1)..Len(batch) : batch[m].id # id

\* the column values run t gave last to the row of the id
GivenBy(t, id) ==
    LET n == LastIndex(sessions[t].campgrounds, id)
    IN convert_to_db_model(sessions[t].campgrounds[n], sessions[t].geos[n])

BothCommitted == \A t \in Tx : sessions[t].spc = "returned"

\* C24: when two runs store at the same time and both batches have committed,
\* the table holds exactly one row for every id of the batches; the row of an
\* id that both batches hold has all its columns from one record, the one of
\* the batch that committed last.
C24_ConcurrentLastCommitWins ==
    BothCommitted =>
        \A id \in Ids :
            LET later == commitLog[2]
                earlier == commitLog[1]
                inLater == id \in BatchIds(sessions[later].campgrounds)
                inEarlier == id \in BatchIds(sessions[earlier].campgrounds)
            IN IF ~inLater /\ ~inEarlier
               THEN RowsOf(table, id) = {}
               ELSE /\ Cardinality(RowsOf(table, id)) = 1
                    /\ DataOf(RowOrNone(table, id))
                          = GivenBy(IF inLater THEN later ELSE earlier, id)

\* C24 witness: both batches committed, both hold c1 with different names and
\* addresses, and the run that started storing first committed last
C24_Witness ==
    /\ BothCommitted
    /\ commitLog = <<2, 1>>
    /\ \A t \in Tx : "c1" \in BatchIds(sessions[t].campgrounds)
    /\ GivenBy(1, "c1").name # GivenBy(2, "c1").name
    /\ DataOf(RowOrNone(table, "c1")) = GivenBy(1, "c1")


C32_TotalMatchesCompleted ==
    /\ [][(statsFile' # statsFile /\ statsFile' # Corrupt) =>
            /\ CurrentCell \notin processed_cells
            /\ statsFile'.processed_cells = processed_cells \cup {CurrentCell}
            /\ statsFile'.total_campgrounds =
                  total_campgrounds + (IF pc = "storing" THEN ret ELSE 0)]_vars
    /\ [](pc # "idle" /\ resume =>
            /\ processed_cells = load_stats(statsFile).processed_cells
            /\ total_campgrounds = load_stats(statsFile).total_campgrounds)

\* a resumed run that started from the cells of an earlier run has written a
\* file listing one more cell and a total of several records
C32_Witness ==
    /\ resume
    /\ wrote
    /\ runs >= 2
    /\ statsFile # Corrupt
    /\ startCompleted # {}
    /\ statsFile.processed_cells # startCompleted
    /\ startCompleted \subseteq statsFile.processed_cells
    /\ statsFile.total_campgrounds >= 2


\* ---------------------------------------------------------------------------
\* C33: during a run with resume=True the completed set in the file only
\* grows: each checkpoint the run writes contains every cell the file listed
\* at the start of the run and every cell an earlier checkpoint of the run
\* wrote (a write cut short by the death of the process leaves no checkpoint,
\* see C1)
C33_CompletedOnlyGrows ==
    [][(resume /\ statsFile' # statsFile /\ statsFile' # Corrupt) =>
          /\ startCompleted \subseteq FileCells(statsFile')
          /\ FileCells(statsFile) \subseteq FileCells(statsFile')
          /\ FileCells(statsFile') # FileCells(statsFile)]_vars

\* a resumed run that found cells in the file has written two checkpoints
\* on top of them
C33_Witness ==
    /\ resume
    /\ wrote
    /\ statsFile # Corrupt
    /\ startCompleted # {}
    /\ startCompleted \subseteq FileCells(statsFile)
    /\ Cardinality(FileCells(statsFile) \ startCompleted) >= 2


----------------------------------------------------------------------------
(* improved_scrapers.py: _load_stats on the text of the stats file, and the
   skip test of run on what it returns *)

\* every variable of the other parts of the model
oldVars == <<storeVars, runVars, runHist, runGhost, runRes, reqVars, geoVars,
             searchVars, parseVars, gridVars, probeVars, txVars>>

InitOldIdle ==
    /\ InitStore /\ InitRunIdle
    /\ InitReqIdle /\ InitGeoIdle /\ InitSearchIdle /\ InitParseIdle /\ InitGridIdle
    /\ InitProbeIdle /\ InitTxIdle

loadFrame == <<oldVars, schedVars, updVars>>

Quote == "\""
Digits == {"0", "1", "2", "3", "4", "5", "6", "7", "8", "9"}

\* the elements of a JSON array of strings, comma separated
RECURSIVE Joined(_)
Joined(ids) ==
    IF ids = <<>> THEN <<>>
    ELSE <<Quote>> \o Head(ids) \o <<Quote>>
         \o (IF Len(ids) > 1 THEN <<",">> \o Joined(Tail(ids)) ELSE <<>>)

\* json.dump(stats, f): the characters written for a stats dict whose
\* processed_cells is the list ids (a key is kept as one token)
json_dump(total, ids) ==
    <<"{", "total_campgrounds", ":">> \o Decimal(total)
    \o <<",", "processed_cells", ":", "[">> \o Joined(ids) \o <<"]", "}">>

\* the number of digits of t from position p on
RECURSIVE DigitRun(_, _)
DigitRun(t, p) ==
    IF p <= Len(t) /\ t[p] \in Digits THEN 1 + DigitRun(t, p + 1) ELSE 0

\* int of a sequence of digits
RECURSIVE NumberOf(_)
NumberOf(d) ==
    IF d = <<>> THEN 0
    ELSE 10 * NumberOf(SubSeq(d, 1, Len(d) - 1))
         + (CHOOSE v \in 0..9 : Decimal(v) = <<d[Len(d)]>>)

\* the position of the first quote of t from position p on, 0 if there is none
RECURSIVE ClosingQuote(_, _)
ClosingQuote(t, p) ==
    IF p > Len(t) THEN 0
    ELSE IF t[p] = Quote THEN p ELSE ClosingQuote(t, p + 1)

NoItems == [ok |-> FALSE, cells |-> <<>>, next |-> 0]

\* the strings of a JSON array from position p, which follows "[" or ",":
\* next is the position after the closing bracket
RECURSIVE ReadItems(_, _)
ReadItems(t, p) ==
    IF p > Len(t) \/ t[p] # Quote THEN NoItems
    ELSE LET q == ClosingQuote(t, p + 1)
         IN IF q = 0 \/ q + 1 > Len(t) THEN NoItems
            ELSE IF t[q + 1] = "]"
                 THEN [ok |-> TRUE, cells |-> <<SubSeq(t, p + 1, q - 1)>>,
                       next |-> q + 2]
            ELSE IF t[q + 1] = ","
                 THEN LET more == ReadItems(t, q + 2)
                      IN IF more.ok
                         THEN [more EXCEPT
                                 !.cells = <<SubSeq(t, p + 1, q - 1)>> \o @]
                         ELSE NoItems
            ELSE NoItems

\* json.load(f) on a text json.dump wrote, whole or cut short: the dict, or
\* JSONDecodeError (ok = FALSE) when the text is not a complete document
json_load(t) ==
    LET nd == DigitRun(t, 4)
        q == 4 + nd
        items == IF Len(t) >= q + 4 /\ t[q + 4] = "]"
                 THEN [ok |-> TRUE, cells |-> <<>>, next |-> q + 5]
                 ELSE ReadItems(t, q + 4)
    IN IF /\ Len(t) >= 3
          /\ SubSeq(t, 1, 3) = <<"{", "total_campgrounds", ":">>
          /\ nd >= 1
          /\ Len(t) >= q + 3
          /\ SubSeq(t, q, q + 3) = <<",", "processed_cells", ":", "[">>
          /\ items.ok
          /\ items.next = Len(t)
          /\ t[items.next] = "}"
       THEN [ok |-> TRUE,
             value |-> [total_campgrounds |-> NumberOf(SubSeq(t, 4, q - 1)),
                        processed_cells |-> Range(items.cells)]]
       ELSE [ok |-> FALSE, value |-> EmptyStats]

\* _load_stats without the except clause
load_stats_uncaught(text) ==
    IF text = Missing \/ ~json_load(text).ok
    THEN [raises |-> TRUE, value |-> EmptyStats]
    ELSE [raises |-> FALSE, value |-> json_load(text).value]

\* _load_stats: open raises FileNotFoundError for a missing file, json.load
\* raises JSONDecodeError; both are caught and answered with the empty progress
load_stats_text(text) ==
    IF text = Missing \/ ~json_load(text).ok
    THEN [raises |-> FALSE, value |-> EmptyStats]
    ELSE [raises |-> FALSE, value |-> json_load(text).value]

\* the totals a stats file may hold
LoadTotals == {0, 7, 12}

\* the texts json.dump writes for the progress of a run through the grid
Documents ==
    {json_dump(n, FirstCells(m)) : n \in LoadTotals, m \in 0..NumCells}

\* a stats file: missing, a document, or a document cut short by an
\* interrupted write (the empty file included)
FileTexts ==
    {Missing} \cup UNION {{SubSeq(d, 1, m) : m \in 0..Len(d)} : d \in Documents}

InitLoad ==
    /\ InitOldIdle /\ InitSchedIdle /\ InitUpdIdle
    /\ file_text \in FileTexts
    /\ lresume \in BOOLEAN
    /\ lpc = "idle"
    /\ lstats = EmptyStats
    /\ li = 0
    /\ lvisited = <<>>

\* run: stats = self._load_stats() if resume else the empty progress
LoadCall ==
    /\ lpc = "idle"
    /\ LET got == IF lresume THEN load_stats_text(file_text)
                  ELSE [raises |-> FALSE, value |-> EmptyStats]
       IN /\ lpc' = IF got.raises THEN "raised" ELSE "loop"
          /\ lstats' = got.value
    /\ li' = 1
    /\ UNCHANGED <<loadFrame, file_text, lresume, lvisited>>

\* if resume and cell_id in processed_cells: continue
LoadSkip ==
    /\ lpc = "loop"
    /\ li <= NumCells
    /\ lresume
    /\ generate_grid_bounds[li].cell_id \in lstats.processed_cells
    /\ li' = li + 1
    /\ UNCHANGED <<loadFrame, file_text, lresume, lpc, lstats, lvisited>>

\* the cell is not skipped: the run goes on to fetch it
LoadProcess ==
    /\ lpc = "loop"
    /\ li <= NumCells
    /\ ~(lresume /\ generate_grid_bounds[li].cell_id \in lstats.processed_cells)
    /\ lvisited' = Append(lvisited, generate_grid_bounds[li].cell_id)
    /\ li' = li + 1
    /\ UNCHANGED <<loadFrame, file_text, lresume, lpc, lstats>>

\* the loop is over
LoadDone ==
    /\ lpc = "loop"
    /\ li > NumCells
    /\ lpc' = "done"
    /\ UNCHANGED <<loadFrame, file_text, lresume, lstats, li, lvisited>>

NextLoad ==
    \/ LoadCall
    \/ LoadSkip
    \/ LoadProcess
    \/ LoadDone
SpecLoad == InitLoad /\ [][NextLoad]_vars

\* the file is missing or is not a document json.dump wrote
Malformed(text) == text \notin Documents

C36_ReturnsBatchLength ==
    spc = "returned" =>
        /\ ret = k
        /\ ret = Len(campgrounds)
        /\ campgrounds = <<>> =>
              /\ ret = 0
              /\ geos = <<>>
              /\ table = tableBefore
              /\ pending = table

\* a batch with the same id twice returned 2 and left one row for the id
C36_Witness ==
    /\ spc = "returned"
    /\ Len(campgrounds) = 2
    /\ campgrounds[1].id = campgrounds[2].id
    /\ ret = 2
    /\ Cardinality({r \in table : r.id = campgrounds[1].id}) = 1


----------------------------------------------------------------------------
(* api.py: /scheduler/start and /scheduler/stop on the module-level scheduler;
   simple_scheduler.py: start, run in the thread the start request creates.
   The two handlers are coroutines without an await, so each runs in one piece
   on the event loop; the threads interleave with them and with each other. *)

schedFrame == <<oldVars, loadVars, updVars>>

\* the interval jobs that may be registered
MaxJobs == 2

\* the threads inside scheduler.start
Alive == {t \in Thr : threads[t].pc # "none"}

\* what run_scraper may meet
RunOutcomes == {"ok", "failed"}

InitSched ==
    /\ InitOldIdle /\ InitLoadIdle /\ InitUpdIdle
    /\ InitSchedIdle

\* POST /scheduler/start: "already running" if scheduler.running, else
\* schedule_interval registers a job and a daemon thread is started on
\* scheduler.start
StartRequest ==
    /\ Len(jobs) < MaxJobs
    /\ Alive # Thr
    /\ IF running
       THEN UNCHANGED schedVars
       ELSE LET t == CHOOSE u \in Thr : u \notin Alive /\ \A v \in Thr \ Alive : u <= v
            IN /\ jobs' = Append(jobs, FALSE)
               /\ threads' = [threads EXCEPT ![t] = [NoThread EXCEPT !.pc = "created"]]
               /\ UNCHANGED running
    /\ UNCHANGED schedFrame

\* POST /scheduler/stop: "not running" if not scheduler.running, else
\* scheduler.running = False; the jobs stay registered and no thread is joined
StopRequest ==
    /\ IF running
       THEN running' = FALSE
       ELSE UNCHANGED running
    /\ UNCHANGED <<schedFrame, jobs, threads>>

\* start, first statement: self.running = True
ThreadBegin(t) ==
    /\ threads[t].pc = "created"
    /\ running' = TRUE
    /\ threads' = [threads EXCEPT ![t].pc = "immediate"]
    /\ UNCHANGED <<schedFrame, jobs>>

\* self.run_immediately(): run_scraper, which logs whatever the run raises
ThreadImmediate(t) ==
    /\ threads[t].pc = "immediate"
    /\ \E o \in RunOutcomes :
          threads' = [threads EXCEPT ![t].pc = "test",
                                     ![t].failed = (o = "failed")]
    /\ UNCHANGED <<schedFrame, running, jobs>>

\* while self.running: enter run_pending, which collects the jobs that are
\* due; otherwise start returns and the thread ends
ThreadTest(t) ==
    /\ threads[t].pc = "test"
    /\ IF running
       THEN threads' = [threads EXCEPT
                          ![t].pc = "pending",
                          ![t].todo = {j \in 1..Len(jobs) : jobs[j]}]
       ELSE threads' = [threads EXCEPT ![t] = NoThread]
    /\ UNCHANGED <<schedFrame, running, jobs>>

\* run_pending calls the next job it collected
ThreadRunJob(t) ==
    /\ threads[t].pc = "pending"
    /\ threads[t].todo # {}
    /\ threads' = [threads EXCEPT ![t].pc = "job"]
    /\ UNCHANGED <<schedFrame, running, jobs>>

\* a job whose exception is not caught by run_scraper: it leaves run_pending
\* and start, and the thread ends
ThreadJobEndsUncaught(t) ==
    /\ threads[t].pc = "job"
    /\ LET j == CHOOSE n \in threads[t].todo : \A m \in threads[t].todo : n <= m
       IN \E o \in RunOutcomes :
            IF o = "failed"
            THEN /\ threads' = [threads EXCEPT ![t] = NoThread]
                 /\ UNCHANGED jobs
            ELSE /\ jobs' = [jobs EXCEPT ![j] = FALSE]
                 /\ threads' = [threads EXCEPT ![t].pc = "pending",
                                               ![t].todo = @ \ {j},
                                               ![t].failed = FALSE]
    /\ UNCHANGED <<schedFrame, running>>

\* the job, run_scraper, returns (it catches Exception and logs) and the job
\* is scheduled for its next interval
ThreadJobEnds(t) ==
    /\ threads[t].pc = "job"
    /\ LET j == CHOOSE n \in threads[t].todo : \A m \in threads[t].todo : n <= m
       IN \E o \in RunOutcomes :
            /\ jobs' = [jobs EXCEPT ![j] = FALSE]
            /\ threads' = [threads EXCEPT ![t].pc = "pending",
                                          ![t].todo = @ \ {j},
                                          ![t].failed = (o = "failed")]
    /\ UNCHANGED <<schedFrame, running>>

\* run_pending is through: time.sleep(1), back to the while test
ThreadSleep(t) ==
    /\ threads[t].pc = "pending"
    /\ threads[t].todo = {}
    /\ threads' = [threads EXCEPT ![t].pc = "test"]
    /\ UNCHANGED <<schedFrame, running, jobs>>

\* the interval of a registered job has elapsed
JobDue(j) ==
    /\ j <= Len(jobs)
    /\ ~jobs[j]
    /\ jobs' = [jobs EXCEPT ![j] = TRUE]
    /\ UNCHANGED <<schedFrame, running, threads>>

ThreadStep(t) ==
    \/ ThreadBegin(t)
    \/ ThreadImmediate(t)
    \/ ThreadTest(t)
    \/ ThreadRunJob(t)
    \/ ThreadJobEnds(t)
    \/ ThreadSleep(t)

NextSched ==
    \/ StartRequest
    \/ StopRequest
    \/ \E t \in Thr : ThreadStep(t)
    \/ \E j \in 1..MaxJobs : JobDue(j)
SpecSched == InitSched /\ [][NextSched]_vars

\* the threads keep being scheduled (some thread that can take a step does)
\* and time goes on (an interval that is running elapses)
SpecSchedFair ==
    /\ SpecSched
    /\ WF_vars(\E t \in Thr : ThreadStep(t))
    /\ WF_vars(\E j \in 1..MaxJobs : JobDue(j))

\* C37: under every interleaving of /scheduler/start and /scheduler/stop with
\* the scheduler threads, at most one thread is inside scheduler.start
C37_AtMostOneLoop ==
    Cardinality(Alive) <= 1

\* C38: while the scheduler is running exactly one interval job is registered
C38_OneJobWhileRunning ==
    running => Len(jobs) = 1


\* a thread whose last run_scraper failed is between two runs
FailedIn(t) == threads[t].failed /\ threads[t].pc \in {"test", "pending"}

\* C39: a harvest run that fails never terminates the scheduler loop:
\* run_scraper catches the exception, so a thread leaves scheduler.start only
\* at the while test with running false, and after a failed run the next
\* scheduled run is still triggered unless the scheduler is stopped
C39_FailedRunKeepsLoop ==
    /\ [][\A t \in Thr :
            (threads[t].pc # "none" /\ threads'[t].pc = "none") =>
                (threads[t].pc = "test" /\ ~running)]_vars
    /\ \A t \in Thr :
          FailedIn(t) ~> (~running \/ \E u \in Thr : threads[u].pc = "job")

\* the thread whose last run failed is running the next scheduled job
C39_Witness ==
    \E t \in Thr :
        /\ threads[t].failed
        /\ threads[t].pc = "job"
        /\ running


----------------------------------------------------------------------------
(* address_update_test.py: update_addresses(batch_size, force_update);
   scraper.py: update_addresses(batch_size), which has no force_update and no
   test of the coordinates *)

updFrame == <<oldVars, loadVars, schedVars>>

\* the largest batch_size tried
MaxUpdBatch == 2

\* a row as the scraper leaves it: the address null or set, the coordinates
\* present; "zero" stands for a latitude or longitude of 0.0
UpdRows == [address : {"null", "old"}, coords : {"zero", "ok"}]

\* the ids of a set in increasing order
RECURSIVE InOrder(_)
InOrder(S) ==
    IF S = {} THEN <<>>
    ELSE LET m == CHOOSE x \in S : \A y \in S : x <= y
         IN <<m>> \o InOrder(S \ {m})

\* a query that selects the rows with coordinates whatever their address
QueryAllRows(rows, force) ==
    InOrder({id \in UpdIds : rows[id].coords # "null"})

\* the query: latitude and longitude not null, and address null unless
\* force_update
Query(rows, force) ==
    InOrder({id \in UpdIds :
               /\ rows[id].coords # "null"
               /\ force \/ rows[id].address = "null"})

\* what the geocoder may give for a row: an address, nothing, an exception
GeoAnswers == {"address", "none", "raise"}

InitUpdate ==
    /\ InitOldIdle /\ InitLoadIdle /\ InitSchedIdle
    /\ updater \in {"address_update_test", "scraper"}
    /\ force_update \in (IF updater = "scraper" THEN {FALSE} ELSE BOOLEAN)
    /\ batch_size \in 1..MaxUpdBatch
    /\ urows \in [UpdIds -> UpdRows]
    /\ urows0 = urows
    /\ campgrounds_to_update = <<>>
    /\ ui = 0
    /\ assigned = {}
    /\ ugeo = [id \in UpdIds |-> "notcalled"]
    /\ updated_count = 0
    /\ upc = "idle"
    /\ uresult = 0

\* the function is called: the query, return 0 if it finds nothing
UpdCall ==
    /\ upc = "idle"
    /\ campgrounds_to_update' = Query(urows, force_update)
    /\ IF campgrounds_to_update' = <<>>
       THEN upc' = "returned" /\ ui' = 0
       ELSE upc' = "row" /\ ui' = 1
    /\ uresult' = 0
    /\ updated_count' = 0
    /\ UNCHANGED <<updFrame, updater, force_update, batch_size, urows, urows0,
                   assigned, ugeo>>

\* one turn of the row loop: the test of the coordinates (address_update_test
\* only), the geocoder, the assignment and the two counters; an exception is
\* logged. After the last row of a batch comes the commit.
UpdRow ==
    /\ upc = "row"
    /\ LET id == campgrounds_to_update[ui]
           skipped == updater = "address_update_test" /\ urows[id].coords = "zero"
       IN \E g \in (IF skipped THEN {"notcalled"} ELSE GeoAnswers) :
            /\ ugeo' = [ugeo EXCEPT ![id] = g]
            /\ IF g = "address"
               THEN /\ assigned' = assigned \cup {id}
                    /\ updated_count' = updated_count + 1
               ELSE UNCHANGED <<assigned, updated_count>>
    /\ upc' = IF ui % batch_size = 0 \/ ui = Len(campgrounds_to_update)
              THEN "commit" ELSE "row"
    /\ ui' = ui + 1
    /\ UNCHANGED <<updFrame, updater, force_update, batch_size, urows, urows0,
                   campgrounds_to_update, uresult>>

\* db.commit() of the batch; after the last batch, return updated_count
UpdCommit ==
    /\ upc = "commit"
    /\ urows' = [id \in UpdIds |->
                   IF id \in assigned THEN [urows[id] EXCEPT !.address = "new"]
                   ELSE urows[id]]
    /\ assigned' = {}
    /\ IF ui > Len(campgrounds_to_update)
       THEN upc' = "returned" /\ uresult' = updated_count
       ELSE upc' = "row" /\ UNCHANGED uresult
    /\ UNCHANGED <<updFrame, updater, force_update, batch_size, urows0,
                   campgrounds_to_update, ui, ugeo, updated_count>>

\* db.commit() raises: rollback of the batch, the exception is raised again
UpdCommitFails ==
    /\ upc = "commit"
    /\ assigned' = {}
    /\ upc' = "raised"
    /\ UNCHANGED <<updFrame, updater, force_update, batch_size, urows, urows0,
                   campgrounds_to_update, ui, ugeo, updated_count, uresult>>

NextUpdate ==
    \/ UpdCall
    \/ UpdRow
    \/ UpdCommit
    \/ UpdCommitFails
SpecUpdate == InitUpdate /\ [][NextUpdate]_vars

\* the row of id is as it was when the function was called, in the table and
\* in the session
Untouched(id) == urows[id] = urows0[id] /\ id \notin assigned

\* C40: update_addresses with force_update=False never modifies a row whose
\* address is not null; with either value it leaves every row for which no
\* address was obtained as it was; and when it returns, its result is the
\* number of rows whose address it set, all of them committed
C40_UpdateAddressesFrame ==
    /\ ~force_update =>
          \A id \in UpdIds : urows0[id].address # "null" => Untouched(id)
    /\ \A id \in UpdIds : ugeo[id] # "address" => Untouched(id)
    /\ upc = "returned" =>
          /\ assigned = {}
          /\ uresult = Cardinality({id \in UpdIds : ugeo[id] = "address"})
          /\ \A id \in UpdIds :
                ugeo[id] = "address" =>
                    urows[id] = [urows0[id] EXCEPT !.address = "new"]

\* a call without force_update returned 1: it set the address of the row that
\* had none and left the row with an address alone
C40_Witness ==
    /\ upc = "returned"
    /\ ~force_update
    /\ uresult = 1
    /\ \E a, b \in UpdIds :
          /\ urows0[a].address = "old" /\ urows[a] = urows0[a]
          /\ urows0[b].address = "null" /\ urows[b].address = "new"

====
